---- MODULE Spec2Model ----
(***************************************************************************)
(* PIIDetectionService (src/src/services/PIIDetectionService.ts): the      *)
(* multi-key dispatch layer.  One service instance is shared by the        *)
(* callers of detectPIIInText / detectPIIInImage; every caller runs        *)
(* callGeminiWithRetry on the single JavaScript thread, so the code        *)
(* between two awaits is one atomic action.                                *)
(***************************************************************************)
EXTENDS Integers, Sequences, FiniteSets, TLC

\* ---------------------------------------------------------------- bounds
MaxKeys == 3            \* largest apiKeys.length constructed
MaxRetriesIn == 4       \* largest config.maxRetries passed explicitly
MaxIssued == 6          \* upstream calls the dispatches started may issue in all
NumCallers == 2         \* concurrent callers of the shared service
ExplicitRetryDelay == 250   \* a config.retryDelay passed explicitly
Callers == 1 .. NumCallers

\* ------------------------------------------------------ program constants
DefaultMaxRetries == 3      \* config.maxRetries || 3
DefaultRetryDelay == 1000   \* config.retryDelay || 1000
ResetWindow == 60000        \* Date.now() + 60000

Absent == <<>>              \* undefined / null
Some(x) == <<x>>

\* ------------------------------------------------------- upstream outcomes
\* An error is what the catch clause reads of it: the needles its message
\* contains and its status (0: no status property).
ErrQuota == [message |-> {"429", "RESOURCE_EXHAUSTED"}, status |-> 429]
ErrServer == [message |-> {"500"}, status |-> 500]
ErrNetwork == [message |-> {"fetch failed"}, status |-> 0]
ErrAllKeys == [message |-> {"All API keys are currently rate limited", "rate limit"},
               status |-> 0]
NoError == [message |-> {}, status |-> 0]
UpstreamErrors == {ErrQuota, ErrServer, ErrNetwork}
RawTexts == {"T1"}   \* what response.text() returns; its content is not read here

includes(message, needle) == needle \in message

isRateLimitError(error) ==
    \/ includes(error.message, "429")
    \/ includes(error.message, "rate limit")
    \/ includes(error.message, "RESOURCE_EXHAUSTED")
    \/ error.status = 429

\* ------------------------------------------------------------------ state
VARIABLES
    nKeys,                \* apiKeys.length
    maxRetries,           \* config.maxRetries
    retryDelay,           \* config.retryDelay
    currentKeyIndex,
    keyUsageStats,        \* [0..nKeys-1 -> [requests, errors, lastUsed, rateLimitHits]]
    rateLimitResetTimes,  \* Map<number, number>: a function on the indices set
    clientKey,            \* index of the key this.genAI / this.model was built from
    now,                  \* Date.now(), relative to construction
    pc,                   \* per caller: "idle", "call", "sleepRL", "sleepBackoff", "done"
    attempt,              \* per caller: the attempt parameter of the running call
    usedKey,              \* per caller: key of the client the pending call was issued with
    chargedKey,           \* per caller: index whose requests counter the attempt bumped
    wakeAt,               \* per caller: when the pending sleep() resolves
    waits,                \* per caller: the delays passed to sleep(), in order
    calls,                \* per caller: generateContent calls issued
    caught,               \* per caller: the error bound in the running call's catch clause
    result,               \* per caller: what callGeminiWithRetry settled with
    issued,               \* generateContent calls issued, all callers
    rotLog,               \* rotateAPIKey calls since currentKeyIndex was last set otherwise
    apiKeysArg,           \* the apiKeys argument of new PIIDetectionService(...)
    configArg,            \* the config argument of new PIIDetectionService(...)
    construction,         \* "pending", "built", or "threw": how the constructor ended
    thrown,               \* the error the constructor threw
    settled,              \* detectPIIInText: what its callGeminiWithRetry settled with
    classified,           \* detectPIIInText: what it settled with itself
    handled,              \* detectPIIInText: whether handleDetection was called
    returned,             \* what the last getUsageStats() returned, as its caller holds it
    req,                  \* chat middleware: the request being handled
    res,                  \* chat middleware: the response sent, if any
    nextCalls,            \* chat middleware: calls of next() for the request
    blockOnDetection,     \* chat middleware: this.config.blockOnDetection
    handler,              \* chat middleware: where checkTextMessage / checkImageMessage stands
    content,              \* per caller: the text or imageData argument of its detect call
    handling              \* handleDetection: its three config entries and the steps it took

vars == <<nKeys, maxRetries, retryDelay, currentKeyIndex, keyUsageStats,
          rateLimitResetTimes, clientKey, now, pc, attempt, usedKey, chargedKey,
          wakeAt, waits, calls, caught, result, issued, rotLog,
          apiKeysArg, configArg, construction, thrown,
          settled, classified, handled, returned,
          req, res, nextCalls, blockOnDetection, handler, content, handling>>

config == <<nKeys, maxRetries, retryDelay>>
\* The chat middleware's own state.
chat == <<req, res, nextCalls, blockOnDetection, handler>>
\* What callGeminiWithRetry never touches.
outside == <<apiKeysArg, configArg, construction, thrown,
             settled, classified, handled, returned, chat, content, handling>>
pool == <<currentKeyIndex, keyUsageStats, rateLimitResetTimes, clientKey>>

Keys == 0 .. (nKeys - 1)

\* ------------------------------------------------------------ constructor
\* { maxRetries: config.maxRetries || 3, ..., ...config }: a key the caller
\* passes wins through the spread, also when it is 0.
ConfigValue(given, default) == IF given = Absent THEN default ELSE given[1]

NewStats == [requests |-> 0, errors |-> 0, lastUsed |-> Absent, rateLimitHits |-> 0]

NoResult == [kind |-> "none", text |-> "", error |-> NoError]

\* No request is with the chat middleware.
NoRequest ==
    /\ req = Absent
    /\ res = Absent
    /\ nextCalls = 0
    /\ blockOnDetection = FALSE
    /\ handler = [at |-> "none"]

\* The argument of a caller's detectPIIInText / detectPIIInImage call.
NoCall == [kind |-> "none"]
TextContent(value) == [kind |-> "text", value |-> value]
ImageContent(value) == [kind |-> "image", value |-> value]
NoContent == content = [c \in Callers |-> NoCall]

\* enableLogging, databaseUrl and adminWebhook as the constructor defaults
\* them (lines 44-46), and no step of handleDetection taken.
DefaultHandling ==
    [enableLogging |-> TRUE,
     databaseUrl |-> [type |-> "null"],
     adminWebhook |-> [type |-> "null"],
     steps |-> <<>>]

\* JavaScript values, by type.
JSUndefined == [type |-> "undefined"]
JSNull == [type |-> "null"]
JSString(chars) == [type |-> "string", chars |-> chars]
JSBoolean(bool) == [type |-> "boolean", bool |-> bool]
JSNumber(num) == [type |-> "number", num |-> num]
JSObject(fields) == [type |-> "object", fields |-> fields]
JSArray(items) == [type |-> "array", items |-> items]

isArray(value) == value.type = "array"

\* The text of a key, as a sequence of characters.
KeyText(index) ==
    <<"A", "I", "z", "a", "S", "y", "-", "k", "e", "y", "-">> \o <<ToString(index)>>

ErrNoKeys == [message |-> {"At least one API key is required"}, status |-> 0]

\* constructor with the length test dropped: an empty list is accepted.
constructorAcceptsEmpty(apiKeysIn, configIn) ==
    LET keys == IF apiKeysIn.type = "undefined" THEN JSArray(<<>>) ELSE apiKeysIn
        cfg == IF configIn = Absent
               THEN [maxRetries |-> Absent, retryDelay |-> Absent]
               ELSE configIn[1]
    IN  IF ~isArray(keys)
        THEN [thrown |-> ErrNoKeys, this |-> Absent]
        ELSE [thrown |-> NoError,
              this |-> Some([nKeys               |-> Len(keys.items),
                             keyUsageStats       |-> [k \in 0 .. Len(keys.items) - 1 |-> NewStats],
                             maxRetries          |-> ConfigValue(cfg.maxRetries, DefaultMaxRetries),
                             retryDelay          |-> ConfigValue(cfg.retryDelay, DefaultRetryDelay),
                             rateLimitResetTimes |-> <<>>,
                             currentKeyIndex     |-> 0,
                             clientKey           |-> 0])]

\* constructor(apiKeys = [], config = {}): what it throws, or the fields of
\* the instance it leaves behind.
constructor(apiKeysIn, configIn) ==
    LET keys == IF apiKeysIn.type = "undefined" THEN JSArray(<<>>) ELSE apiKeysIn
        cfg == IF configIn = Absent
               THEN [maxRetries |-> Absent, retryDelay |-> Absent]
               ELSE configIn[1]
    IN  IF ~isArray(keys) \/ Len(keys.items) = 0
        THEN [thrown |-> ErrNoKeys, this |-> Absent]
        ELSE [thrown |-> NoError,
              this |-> Some([nKeys               |-> Len(keys.items),
                             keyUsageStats       |-> [k \in 0 .. Len(keys.items) - 1 |-> NewStats],
                             maxRetries          |-> ConfigValue(cfg.maxRetries, DefaultMaxRetries),
                             retryDelay          |-> ConfigValue(cfg.retryDelay, DefaultRetryDelay),
                             rateLimitResetTimes |-> <<>>,
                             currentKeyIndex     |-> 0,
                             clientKey           |-> 0])]

Init ==
    /\ nKeys \in 1 .. MaxKeys
    /\ maxRetries \in {ConfigValue(g, DefaultMaxRetries) :
                          g \in {Absent} \cup {Some(m) : m \in 0 .. MaxRetriesIn}}
    /\ retryDelay \in {ConfigValue(g, DefaultRetryDelay) :
                          g \in {Absent, Some(ExplicitRetryDelay)}}
    /\ currentKeyIndex = 0
    /\ keyUsageStats = [k \in Keys |-> NewStats]
    /\ rateLimitResetTimes = <<>>
    /\ clientKey = 0
    /\ now = 0
    /\ pc = [c \in Callers |-> "idle"]
    /\ attempt = [c \in Callers |-> 0]
    /\ usedKey = [c \in Callers |-> 0]
    /\ chargedKey = [c \in Callers |-> 0]
    /\ wakeAt = [c \in Callers |-> 0]
    /\ waits = [c \in Callers |-> <<>>]
    /\ calls = [c \in Callers |-> 0]
    /\ caught = [c \in Callers |-> NoError]
    /\ result = [c \in Callers |-> NoResult]
    /\ issued = 0
    /\ rotLog = <<>>
    /\ apiKeysArg = JSArray([i \in 1 .. nKeys |-> KeyText(i - 1)])
    /\ configArg = Some([maxRetries |-> Some(maxRetries), retryDelay |-> Some(retryDelay)])
    /\ construction = "built"
    /\ thrown = NoError
    /\ settled = NoResult
    /\ classified = NoResult
    /\ handled = FALSE
    /\ returned = Absent
    /\ NoRequest
    /\ NoContent
    /\ handling = DefaultHandling

\* ------------------------------------------------------------------- pool
\* The pool part of the service as one value, so that the methods below are
\* functions from pool to pool.
Pool == [cur |-> currentKeyIndex, stats |-> keyUsageStats,
         resets |-> rateLimitResetTimes, client |-> clientKey]

\* initializeClient left out: the client built earlier stays in use.
initializeClientSkipped(P) == P

\* initializeClient(): genAI and model are rebuilt from apiKeys[currentKeyIndex].
initializeClient(P) == [P EXCEPT !.client = P.cur]

\* MapSet that forgets the other entries, as assigning a fresh Map would.
MapSetFresh(m, index, t) == [k \in {index} |-> t]

\* this.rateLimitResetTimes.set(index, t)
MapSet(m, index, t) ==
    [k \in (DOMAIN m) \cup {index} |-> IF k = index THEN t ELSE m[k]]

\* rotateAPIKey with the wrap-around one key short: the last key is skipped.
rotateAPIKeySkipLast(P, n, t) ==
    LET previousIndex == P.cur
        next == IF P.cur + 1 >= n - 1 THEN 0 ELSE P.cur + 1
    IN  [P EXCEPT !.cur = next,
                  !.client = next,
                  !.stats[previousIndex].rateLimitHits = @ + 1,
                  !.resets = MapSet(@, previousIndex, t + ResetWindow)]

\* rotateAPIKey without the wrap-around: the index runs past the last key.
rotateAPIKeyNoWrap(P, n, t) ==
    LET previousIndex == P.cur
        next == P.cur + 1
    IN  [P EXCEPT !.cur = next,
                  !.client = next,
                  !.stats[previousIndex].rateLimitHits = @ + 1,
                  !.resets = MapSet(@, previousIndex, t + ResetWindow)]

\* rotateAPIKey moving the index only, the marking of the key left behind
\* not applied.
rotateAPIKeyIndexOnly(P, n, t) ==
    initializeClient([P EXCEPT !.cur = (P.cur + 1) % n])

\* rotateAPIKey(): advance currentKeyIndex, count a rate-limit hit against the
\* key left behind and give it a reset time one window ahead.
rotateAPIKey(P, n, t) ==
    LET previousIndex == P.cur
        next == (P.cur + 1) % n
    IN  initializeClient(
            [P EXCEPT !.cur = next,
                      !.stats[previousIndex].rateLimitHits = @ + 1,
                      !.resets = MapSet(@, previousIndex, t + ResetWindow)])

\* KeyAvailable with the comparison weakened: a key counts as available at the
\* very instant of its reset time.
KeyAvailableAtReset(resets, keyIndex, t) ==
    \/ keyIndex \notin DOMAIN resets
    \/ resets[keyIndex] = 0
    \/ t >= resets[keyIndex]

\* KeyAvailable without the expiry: a key that was ever given a reset time
\* stays unavailable.
KeyAvailableNeverExpires(resets, keyIndex, t) == keyIndex \notin DOMAIN resets

\* !resetTime || now > resetTime
KeyAvailable(resets, keyIndex, t) ==
    \/ keyIndex \notin DOMAIN resets
    \/ resets[keyIndex] = 0
    \/ t > resets[keyIndex]

\* ScanIndex starting the scan at key 0 instead of currentKeyIndex.
ScanIndexFromZero(P, n, i) == i % n

\* The keyIndex of loop round i of findAvailableKey.
ScanIndex(P, n, i) == (P.cur + i) % n

\* findAvailableKey(): the first available key scanning from currentKeyIndex;
\* the result is the pool after the call and the boolean returned.
findAvailableKey(P, n, t) ==
    LET hits == {i \in 0 .. (n - 1) : KeyAvailable(P.resets, ScanIndex(P, n, i), t)}
    IN  IF hits = {}
        THEN [pool |-> P, found |-> FALSE]
        ELSE LET first == CHOOSE i \in hits : \A j \in hits : i <= j
                 keyIndex == ScanIndex(P, n, first)
             IN  [pool |-> IF keyIndex # P.cur
                           THEN initializeClient([P EXCEPT !.cur = keyIndex])
                           ELSE P,
                  found |-> TRUE]

\* recordAttempt charging the first key instead of the current one.
recordAttemptFirstKey(P, t) ==
    [P EXCEPT !.stats[0].requests = @ + 1,
              !.stats[0].lastUsed = Some(t)]

\* recordAttempt as a read-modify-write that loses the increment when the key
\* was already used at the same instant.
recordAttemptLost(P, t) ==
    [P EXCEPT !.stats[P.cur].requests =
                  IF P.stats[P.cur].lastUsed = Some(t) THEN @ ELSE @ + 1,
              !.stats[P.cur].lastUsed = Some(t)]

\* callGeminiWithRetry, lines 169-170: requests++ and lastUsed of the current key.
recordAttempt(P, t) ==
    [P EXCEPT !.stats[P.cur].requests = @ + 1,
              !.stats[P.cur].lastUsed = Some(t)]

\* recordError that starts the key's error count afresh at every failure.
recordErrorAfresh(P) == [P EXCEPT !.stats[P.cur].errors = 1]

\* callGeminiWithRetry, line 176: errors++ of the key that is current when the
\* catch clause runs.
recordError(P) == [P EXCEPT !.stats[P.cur].errors = @ + 1]

\* Math.pow(2, e) for the exponents a retry can have.
RECURSIVE Pow2(_)
Pow2(e) == IF e <= 0 THEN 1 ELSE 2 * Pow2(e - 1)

\* backoffDelay with the exponent off by one.
backoffDelayDoubled(delay, k) == delay * Pow2(k)

\* const backoffDelay = this.config.retryDelay * Math.pow(2, attempt - 1)
backoffDelay(delay, k) == delay * Pow2(k - 1)

\* rateLimitDelay growing with the attempt, as the backoff does.
rateLimitDelayExponential(delay, k) == delay * Pow2(k - 1)

\* await this.sleep(this.config.retryDelay), line 190: the wait of the
\* rate-limit branch, the same at every attempt k.
rateLimitDelay(delay, k) == delay

SetPool(P) ==
    /\ currentKeyIndex' = P.cur
    /\ keyUsageStats' = P.stats
    /\ rateLimitResetTimes' = P.resets
    /\ clientKey' = P.client

\* ---------------------------------------------------------------- actions
Sleeping == {"sleepRL", "sleepBackoff"}

\* The rotateAPIKey calls made since currentKeyIndex was last moved by
\* findAvailableKey, at most the last nKeys of them.
Logged(log, from, to, t) ==
    LET all == Append(log, [from |-> from, to |-> to, at |-> t])
    IN  IF Len(all) > nKeys THEN Tail(all) ELSE all

\* callGeminiWithRetry(content, k) from its entry to the first await: the
\* attempt is recorded and generateContent is called on this.model.
IssueCall(c, P, k) ==
    /\ SetPool(recordAttempt(P, now))
    /\ pc' = [pc EXCEPT ![c] = "call"]
    /\ attempt' = [attempt EXCEPT ![c] = k]
    /\ usedKey' = [usedKey EXCEPT ![c] = P.client]
    /\ chargedKey' = [chargedKey EXCEPT ![c] = P.cur]
    /\ calls' = [calls EXCEPT ![c] = @ + 1]
    /\ caught' = [caught EXCEPT ![c] = NoError]
    /\ issued' = issued + 1

\* Dispatches begun so far; each may issue up to maxRetries + 1 calls.
Started == Cardinality({c \in Callers : pc[c] # "idle"})

\* detectPIIInText / detectPIIInImage call callGeminiWithRetry(prompt).
StartDispatch(c) ==
    /\ pc[c] = "idle"
    /\ (Started + 1) * (maxRetries + 1) <= MaxIssued
    /\ IssueCall(c, Pool, 1)
    /\ UNCHANGED <<outside, config, now, wakeAt, waits, result, rotLog>>

\* generateContent resolves: return response.text().
CallSucceeds(c, text) ==
    /\ pc[c] = "call"
    /\ pc' = [pc EXCEPT ![c] = "done"]
    /\ result' = [result EXCEPT ![c] = [kind |-> "text", text |-> text, error |-> NoError]]
    /\ UNCHANGED <<outside, config, pool, now, attempt, usedKey, chargedKey, wakeAt, waits,
                   calls, caught, issued, rotLog>>

Throw(c, error) ==
    /\ pc' = [pc EXCEPT ![c] = "done"]
    /\ result' = [result EXCEPT ![c] = [kind |-> "error", text |-> "", error |-> error]]
    /\ UNCHANGED <<wakeAt, waits>>

Sleep(c, label, ms) ==
    /\ pc' = [pc EXCEPT ![c] = label]
    /\ wakeAt' = [wakeAt EXCEPT ![c] = now + ms]
    /\ waits' = [waits EXCEPT ![c] = Append(@, ms)]
    /\ UNCHANGED result

\* RetryOrThrow giving up one attempt early.
RetryOrThrowEarly(c, error) ==
    IF attempt[c] < maxRetries
    THEN Sleep(c, "sleepBackoff", backoffDelay(retryDelay, attempt[c]))
    ELSE Throw(c, error)

\* RetryOrThrow with the retry test off by one: a retry too many.
RetryOrThrowOffByOne(c, error) ==
    IF attempt[c] <= maxRetries + 1
    THEN Sleep(c, "sleepBackoff", backoffDelay(retryDelay, attempt[c]))
    ELSE Throw(c, error)

\* Lines 199-211: the part of the catch clause every error can reach.
RetryOrThrow(c, error) ==
    IF attempt[c] <= maxRetries
    THEN Sleep(c, "sleepBackoff", backoffDelay(retryDelay, attempt[c]))
    ELSE Throw(c, error)

\* generateContent rejects: the catch clause, up to its await or throw.
CallFails(c, error) ==
    /\ pc[c] = "call"
    /\ caught' = [caught EXCEPT ![c] = error]
    /\ LET P1 == recordError(Pool)
       IN  IF isRateLimitError(error)
           THEN LET r == findAvailableKey(P1, nKeys, now)
                IN  /\ SetPool(r.pool)
                    /\ rotLog' = IF r.pool.cur # P1.cur THEN <<>> ELSE rotLog
                    /\ IF r.found /\ attempt[c] <= maxRetries
                       THEN Sleep(c, "sleepRL", rateLimitDelay(retryDelay, attempt[c]))
                       ELSE IF ~r.found
                            THEN Throw(c, ErrAllKeys)
                            ELSE RetryOrThrow(c, error)
           ELSE /\ SetPool(P1)
                /\ rotLog' = rotLog
                /\ RetryOrThrow(c, error)
    /\ UNCHANGED <<outside, config, now, attempt, usedKey, chargedKey, calls, issued>>

\* sleep(retryDelay) resolves: callGeminiWithRetry(content, attempt + 1).
WakeAfterRateLimit(c) ==
    /\ pc[c] = "sleepRL"
    /\ now >= wakeAt[c]
    /\ IssueCall(c, Pool, attempt[c] + 1)
    /\ wakeAt' = [wakeAt EXCEPT ![c] = 0]
    /\ UNCHANGED <<outside, config, now, waits, result, rotLog>>

\* sleep(backoffDelay) resolves: rotateAPIKey() when attempt > 1, then
\* callGeminiWithRetry(content, attempt + 1).
WakeAfterBackoff(c) ==
    /\ pc[c] = "sleepBackoff"
    /\ now >= wakeAt[c]
    /\ LET rotated == rotateAPIKey(Pool, nKeys, now)
       IN  IF attempt[c] > 1
           THEN /\ IssueCall(c, rotated, attempt[c] + 1)
                /\ rotLog' = Logged(rotLog, currentKeyIndex, rotated.cur, now)
           ELSE /\ IssueCall(c, Pool, attempt[c] + 1)
                /\ rotLog' = rotLog
    /\ wakeAt' = [wakeAt EXCEPT ![c] = 0]
    /\ UNCHANGED <<outside, config, now, waits, result>>

\* Time passes, up to the next instant at which something can change: a
\* timer is due, or a reset time is reached or just passed.
ClockTargets ==
    {wakeAt[c] : c \in {d \in Callers : pc[d] \in Sleeping}}
        \cup {rateLimitResetTimes[k] : k \in DOMAIN rateLimitResetTimes}
        \cup {rateLimitResetTimes[k] + 1 : k \in DOMAIN rateLimitResetTimes}

AdvanceClock ==
    /\ \E t \in ClockTargets : t > now /\ now' = t
    /\ UNCHANGED <<outside, config, pool, pc, attempt, usedKey, chargedKey, wakeAt, waits,
                   calls, caught, result, issued, rotLog>>

Next ==
    \/ \E c \in Callers : StartDispatch(c)
    \/ \E c \in Callers, text \in RawTexts : CallSucceeds(c, text)
    \/ \E c \in Callers, error \in UpstreamErrors : CallFails(c, error)
    \/ \E c \in Callers : WakeAfterRateLimit(c)
    \/ \E c \in Callers : WakeAfterBackoff(c)
    \/ AdvanceClock

Spec == Init /\ [][Next]_vars

\* What the scheduler guarantees: a pending generateContent settles, a due
\* timer fires, and time passes.
Fairness ==
    /\ \A c \in Callers :
          /\ WF_vars((\E text \in RawTexts : CallSucceeds(c, text))
                        \/ (\E error \in UpstreamErrors : CallFails(c, error)))
          /\ WF_vars(WakeAfterRateLimit(c))
          /\ WF_vars(WakeAfterBackoff(c))
    /\ WF_vars(AdvanceClock)

FairSpec == Init /\ [][Next]_vars /\ Fairness

\* ------------------------------------------------- vocabulary of the claims
\* The step in which caller c's pending call is rejected and handled.
FailStep(c) ==
    /\ pc[c] = "call"
    /\ \/ pc'[c] \in Sleeping
       \/ pc'[c] = "done" /\ result'[c].kind = "error"

RateLimitFailStep(c) == FailStep(c) /\ isRateLimitError(caught'[c])
OtherFailStep(c) == FailStep(c) /\ ~isRateLimitError(caught'[c])

\* The step in which caller c's pending call resolves.
SuccessStep(c) == pc[c] = "call" /\ pc'[c] = "done" /\ result'[c].kind = "text"

\* The step in which caller c issues an upstream call.
IssueStep(c) == calls'[c] = calls[c] + 1

\* The spec's reading of a cooldown: a reset time that has not passed yet.
InCooldown(k) == k \in DOMAIN rateLimitResetTimes /\ now <= rateLimitResetTimes[k]

\* ----------------------------------------------------------------- claims
\* Parts of C1.
C1_Bounded ==
    \A c \in Callers :
        /\ calls[c] <= maxRetries + 1
        /\ attempt[c] = calls[c]
        /\ pc[c] # "idle" => attempt[c] >= 1
        /\ pc[c] = "done" <=> result[c].kind \in {"text", "error"}

C1_CounterStep ==
    \A c \in Callers :
        /\ pc[c] = "idle" /\ pc'[c] # "idle" => attempt'[c] = 1
        /\ attempt'[c] # attempt[c] => attempt'[c] = attempt[c] + 1 /\ IssueStep(c)

\* C1: for every maxRetries >= 0 a dispatch issues at most maxRetries + 1
\* upstream calls; its attempt counter starts at 1 and grows by exactly 1 per
\* retry; and, every upstream call returning, it ends with a raw text or an
\* error.
C1_BoundedDispatchTerminates ==
    /\ []C1_Bounded
    /\ [][C1_CounterStep]_vars
    /\ []<>(\A c \in Callers : pc[c] \in {"idle", "done"})

\* C1 witness: with maxRetries = 0 a dispatch has ended in an error after its
\* single upstream call.
C1_Witness ==
    \E c \in Callers :
        /\ maxRetries = 0
        /\ pc[c] = "done"
        /\ calls[c] = 1
        /\ result[c].kind = "error"

\* Parts of C2.
C2_MarkedThenFind ==
    \A c \in Callers :
        RateLimitFailStep(c) =>
            LET used == usedKey[c]
                marked == rotateAPIKey([recordError(Pool) EXCEPT !.cur = used], nKeys, now)
            IN  /\ keyUsageStats'[used].rateLimitHits = keyUsageStats[used].rateLimitHits + 1
                /\ used \in DOMAIN rateLimitResetTimes'
                /\ rateLimitResetTimes'[used] = now + ResetWindow
                /\ currentKeyIndex' = findAvailableKey(marked, nKeys, now).pool.cur

\* C2 (as claimed): a rate-limit failure first marks the key the call was made
\* with (rateLimitHits + 1, reset time now + one minute, currentKeyIndex
\* advanced past it) and only then looks for an available key.
C2_RateLimitMarksKey == [][C2_MarkedThenFind]_vars

\* Parts of C3.
C3_SingleKeyStep ==
    \A c \in Callers :
        nKeys = 1 /\ attempt[c] = 1 /\ RateLimitFailStep(c) =>
            /\ pc'[c] = "done"
            /\ result'[c].error = ErrAllKeys
            /\ calls'[c] = 1
            /\ waits'[c] = <<>>

\* C3 (as claimed): with one key, a rate-limit failure of the first call ends
\* the dispatch with the all-keys-rate-limited error: one call, no sleep.
C3_SingleKeyFailsAtOnce == [][C3_SingleKeyStep]_vars

\* Parts of C4.
C4_ExhaustedStep ==
    \A c \in Callers :
        /\ RateLimitFailStep(c) /\ (\A k \in Keys : InCooldown(k)) =>
              /\ pc'[c] = "done"
              /\ result'[c] = [kind |-> "error", text |-> "", error |-> ErrAllKeys]
              /\ waits'[c] = waits[c]
              /\ wakeAt'[c] = wakeAt[c]
              /\ calls'[c] = calls[c]
        /\ pc[c] = "done" => pc'[c] = "done" /\ calls'[c] = calls[c]

\* C4: a rate-limit failure met while every key is in cooldown ends the
\* dispatch at once with the all-keys-rate-limited error, whatever the attempt
\* number: no sleep, no further call.
C4_AllKeysExhaustedFailsAtOnce == [][C4_ExhaustedStep]_vars

\* C4 witness: a dispatch has ended with the all-keys error at an attempt that
\* still had retries left.
C4_Witness ==
    \E c \in Callers :
        /\ pc[c] = "done"
        /\ result[c].error = ErrAllKeys
        /\ attempt[c] <= maxRetries
        /\ \A k \in Keys : InCooldown(k)

\* Parts of C5.
C5_OtherFailureStep ==
    \A c \in Callers :
        OtherFailStep(c) =>
            /\ caught'[c] \in UpstreamErrors
            /\ IF attempt[c] <= maxRetries
               THEN pc'[c] = "sleepBackoff" /\ result'[c] = result[c]
               ELSE /\ pc'[c] = "done"
                    /\ attempt[c] = maxRetries + 1
                    /\ calls'[c] = maxRetries + 1
                    /\ result'[c] = [kind |-> "error", text |-> "", error |-> caught'[c]]

\* C5: a failure that is not a rate-limit error is retried while attempt <=
\* maxRetries and ends the dispatch at attempt maxRetries + 1, with the very
\* error of that last attempt; so a dispatch whose attempts all fail this way
\* fails after attempt maxRetries + 1 with the last error.
C5_LastErrorSurfaces == [][C5_OtherFailureStep]_vars

\* C5 witness: a dispatch with maxRetries >= 2 whose failures from the second
\* on were backed off has ended at attempt maxRetries + 1 with the error its
\* last attempt raised, which is not a rate-limit error.
C5_Witness ==
    \E c \in Callers :
        /\ maxRetries >= 2
        /\ pc[c] = "done"
        /\ calls[c] = maxRetries + 1
        /\ result[c].kind = "error"
        /\ result[c].error = ErrNetwork
        /\ caught[c] = ErrNetwork
        /\ Len(waits[c]) = maxRetries
        /\ \A i \in 2 .. Len(waits[c]) : waits[c][i] > retryDelay

\* Parts of C6.
C6_BackoffStep ==
    \A c \in Callers :
        OtherFailStep(c) /\ attempt[c] <= maxRetries =>
            /\ waits'[c] = Append(waits[c], retryDelay * 2 ^ (attempt[c] - 1))
            /\ wakeAt'[c] = now + retryDelay * 2 ^ (attempt[c] - 1)
            /\ calls'[c] = calls[c]

C6_Example ==
    \A c \in Callers :
        /\ maxRetries = 3
        /\ retryDelay = 1000
        /\ result[c].kind = "text"
        /\ Len(waits[c]) = 3
        /\ waits[c][2] # retryDelay
        /\ waits[c][3] # retryDelay
        => waits[c] = <<1000, 2000, 4000>> /\ calls[c] = 4

\* C6: a failure that is not a rate-limit error at attempt k <= maxRetries
\* sleeps retryDelay * 2^(k-1) before attempt k + 1; with maxRetries = 3 and
\* retryDelay = 1000, a success after three such failures has slept 1000,
\* 2000, 4000 in that order and took exactly 4 calls.  (A sleep other than
\* retryDelay after attempt 2 or 3 is a backoff; after attempt 1 the two
\* kinds of failure sleep the same retryDelay.)
C6_ExponentialBackoff == []C6_Example /\ [][C6_BackoffStep]_vars

\* C6 witness: the example run has happened.
C6_Witness ==
    \E c \in Callers :
        /\ maxRetries = 3
        /\ retryDelay = 1000
        /\ pc[c] = "done"
        /\ result[c].kind = "text"
        /\ waits[c] = <<1000, 2000, 4000>>
        /\ calls[c] = 4
        /\ now >= 7000

\* Parts of C7.
C7_RetryStep ==
    \A c \in Callers :
        pc[c] = "sleepBackoff" /\ IssueStep(c) =>
            IF attempt[c] > 1
            THEN /\ currentKeyIndex' = (currentKeyIndex + 1) % nKeys
                 /\ keyUsageStats'[currentKeyIndex].rateLimitHits
                        = keyUsageStats[currentKeyIndex].rateLimitHits
                 /\ (currentKeyIndex \in DOMAIN rateLimitResetTimes')
                        = (currentKeyIndex \in DOMAIN rateLimitResetTimes)
                 /\ currentKeyIndex \in DOMAIN rateLimitResetTimes =>
                        rateLimitResetTimes'[currentKeyIndex]
                            = rateLimitResetTimes[currentKeyIndex]
            ELSE currentKeyIndex' = currentKeyIndex

\* C7 (as claimed): the retry after a failure that is not a rate-limit error
\* moves currentKeyIndex to the next key when attempt > 1, and leaves the
\* rateLimitHits and the reset time of the key left behind as they were; the
\* retry after attempt 1 does not move currentKeyIndex.
C7_RotationLeavesKeyUnmarked == [][C7_RetryStep]_vars

\* Parts of C8.
C8_SuccessStep ==
    \A c \in Callers :
        /\ SuccessStep(c) =>
              /\ result'[c].text \in RawTexts /\ result'[c].error = NoError
              /\ UNCHANGED pool
              /\ calls' = calls /\ issued' = issued
        /\ pc[c] = "done" =>
              pc'[c] = "done" /\ result'[c] = result[c] /\ calls'[c] = calls[c]
        /\ IssueStep(c) =>
              /\ \A k \in Keys :
                    /\ keyUsageStats'[k].errors = keyUsageStats[k].errors
                    /\ keyUsageStats'[k].requests = keyUsageStats[k].requests
                           + (IF k = currentKeyIndex' THEN 1 ELSE 0)
                    /\ keyUsageStats'[k].lastUsed =
                           IF k = currentKeyIndex' THEN Some(now)
                           ELSE keyUsageStats[k].lastUsed
              /\ ~(pc[c] = "sleepBackoff" /\ attempt[c] > 1) =>
                    /\ currentKeyIndex' = currentKeyIndex
                    /\ rateLimitResetTimes' = rateLimitResetTimes
                    /\ keyUsageStats' =
                          [keyUsageStats EXCEPT
                              ![currentKeyIndex].requests = @ + 1,
                              ![currentKeyIndex].lastUsed = Some(now)]

\* C8: a call that succeeds ends the dispatch with the text it returned and
\* no further call; recording the attempt changed only requests and lastUsed
\* of the current key, and the success itself changes nothing in the pool.
C8_SuccessReturnsAtOnce == [][C8_SuccessStep]_vars

\* C8 witness: a dispatch has returned a text from a retry on a key other
\* than key 0, and that key has no error, rate-limit hit or reset time.
C8_Witness ==
    \E c \in Callers :
        /\ pc[c] = "done"
        /\ result[c].kind = "text"
        /\ calls[c] >= 2
        /\ chargedKey[c] # 0
        /\ keyUsageStats[chargedKey[c]].requests = 1
        /\ keyUsageStats[chargedKey[c]].errors = 0
        /\ keyUsageStats[chargedKey[c]].rateLimitHits = 0
        /\ chargedKey[c] \notin DOMAIN rateLimitResetTimes

RECURSIVE SumRequests(_)
SumRequests(ks) ==
    IF ks = {} THEN 0
    ELSE LET k == CHOOSE x \in ks : TRUE
         IN  keyUsageStats[k].requests + SumRequests(ks \ {k})

\* C9: whatever the interleaving of the callers, the requests counters of all
\* keys add up to the number of upstream calls issued.
C9_NoLostRequestCount == SumRequests(Keys) = issued

\* C9 witness: two dispatches are in flight at once on a pool of three keys,
\* after a rotation, with calls charged to more than one key.
C9_Witness ==
    /\ nKeys = 3
    /\ \A c \in Callers : pc[c] = "call"
    /\ issued >= 4
    /\ currentKeyIndex # 0
    /\ Cardinality({k \in Keys : keyUsageStats[k].requests > 0}) >= 2

\* C10: successive rotateAPIKey calls move currentKeyIndex round robin: each
\* goes from i to (i + 1) mod N, nKeys of them in a row visit every index once
\* and end on the index they started from; each puts the key it leaves into
\* cooldown for one minute from the call.
C10_RoundRobin ==
    /\ Len(rotLog) <= nKeys
    /\ \A i \in 1 .. Len(rotLog) :
          /\ rotLog[i].to = (rotLog[i].from + 1) % nKeys
          /\ i > 1 => rotLog[i].from = rotLog[i - 1].to
          /\ rotLog[i].from \in DOMAIN rateLimitResetTimes
          /\ rateLimitResetTimes[rotLog[i].from] = rotLog[i].at + 60000
    /\ rotLog # <<>> => currentKeyIndex = rotLog[Len(rotLog)].to
    /\ Len(rotLog) = nKeys =>
          /\ {rotLog[i].to : i \in 1 .. nKeys} = Keys
          /\ \A i, j \in 1 .. nKeys : i # j => rotLog[i].to # rotLog[j].to
          /\ rotLog[nKeys].to = rotLog[1].from

\* C10 witness: three rotations in a row on a pool of three keys.
C10_Witness ==
    /\ nKeys = 3
    /\ Len(rotLog) = 3
    /\ \A k \in Keys : InCooldown(k)

\* Parts of C11.
C11_FindStep ==
    \A c \in Callers :
        RateLimitFailStep(c) =>
            LET eligible == {k \in Keys : ~InCooldown(k)}
                dist(k) == (k - currentKeyIndex + nKeys) % nKeys
            IN  /\ rateLimitResetTimes' = rateLimitResetTimes
                /\ keyUsageStats' =
                      [keyUsageStats EXCEPT ![currentKeyIndex].errors = @ + 1]
                /\ IF eligible = {}
                   THEN /\ currentKeyIndex' = currentKeyIndex
                        /\ clientKey' = clientKey
                        /\ result'[c].error = ErrAllKeys
                   ELSE /\ currentKeyIndex' \in eligible
                        /\ \A k \in eligible : dist(currentKeyIndex') <= dist(k)
                        /\ clientKey' = currentKeyIndex'
                        /\ result'[c].error # ErrAllKeys

\* C11: findAvailableKey, called on a rate-limit failure, selects the first
\* key from currentKeyIndex on (wrapping around) whose reset time is absent or
\* past and makes it current; it reports none exactly when every key is in
\* cooldown, and then leaves currentKeyIndex alone; it changes no counter and
\* no reset time (the errors++ of the step is the catch clause's own).
C11_FindFirstEligible == [][C11_FindStep]_vars

\* C11 witness: a rate-limit failure found the current key, which is not key
\* 0, available while another key is still in cooldown.
C11_Witness ==
    \E c \in Callers :
        /\ pc[c] = "sleepRL"
        /\ wakeAt[c] = now + retryDelay
        /\ currentKeyIndex # 0
        /\ ~InCooldown(currentKeyIndex)
        /\ \E k \in Keys : InCooldown(k)

\* Parts of C12.
C12_CooldownStep ==
    /\ \A k \in DOMAIN rateLimitResetTimes :
          /\ k \in DOMAIN rateLimitResetTimes'
          /\ rateLimitResetTimes'[k] >= rateLimitResetTimes[k]
    /\ \A c \in Callers :
          RateLimitFailStep(c) =>
              /\ (result'[c].error = ErrAllKeys) <=>
                    (\A k \in Keys : k \in DOMAIN rateLimitResetTimes
                                      /\ now <= rateLimitResetTimes[k])
              /\ result'[c].error # ErrAllKeys =>
                    \/ currentKeyIndex' \notin DOMAIN rateLimitResetTimes
                    \/ now > rateLimitResetTimes[currentKeyIndex']
              /\ (currentKeyIndex \in DOMAIN rateLimitResetTimes
                    /\ now > rateLimitResetTimes[currentKeyIndex]) =>
                    currentKeyIndex' = currentKeyIndex /\ result'[c].error # ErrAllKeys

\* C12: a reset time, once stored for a key, is never removed and never moved
\* earlier by any step; a key is passed over by findAvailableKey at every
\* instant up to and including its reset time and is found again as soon as
\* the clock is past it.
C12_CooldownOnlyExpires == [][C12_CooldownStep]_vars

\* C12 witness: the clock has just passed the reset time of the current key,
\* and a rate-limit failure at that instant found the key available again.
C12_Witness ==
    \E c \in Callers :
        /\ pc[c] = "sleepRL"
        /\ wakeAt[c] = now + retryDelay
        /\ currentKeyIndex \in DOMAIN rateLimitResetTimes
        /\ now = rateLimitResetTimes[currentKeyIndex] + 1

\* Parts of C13.
C13_IssueStep ==
    \A c \in Callers :
        IssueStep(c) =>
            \/ usedKey'[c] \notin DOMAIN rateLimitResetTimes'
            \/ now' > rateLimitResetTimes'[usedKey'[c]]

\* C13: every upstream call, whatever the attempt and whatever preceded it,
\* is issued with a key whose reset time is absent or already past.
C13_NeverIssuedInCooldown == [][C13_IssueStep]_vars

\* ----------------------------------------------------------- getUsageStats
\* this.apiKeys: the list the constructor was given, indexed from 0.
apiKeys == [index \in Keys |-> apiKeysArg.items[index + 1]]

\* substring that returns the whole string.
substringWhole(s, end) == s

\* String.prototype.substring(0, end)
substring(s, end) == SubSeq(s, 1, IF end < Len(s) THEN end ELSE Len(s))

\* getUsageStats() of a service holding the given keys: one entry per key,
\* in index order.
UsageStatsOf(keys) ==
    [index \in Keys |->
        [keyIndex      |-> index,
         keyPreview    |-> substring(keys[index], 8) \o <<".", ".", ".">>,
         isCurrent     |-> index = currentKeyIndex,
         requests      |-> keyUsageStats[index].requests,
         errors        |-> keyUsageStats[index].errors,
         lastUsed      |-> keyUsageStats[index].lastUsed,
         rateLimitHits |-> keyUsageStats[index].rateLimitHits]]

getUsageStats == UsageStatsOf(apiKeys)

\* C14: currentKeyIndex is always one index of the key list (index 0 until the
\* first call has been issued), the client is
\* built from that key, and getUsageStats() reports one entry per key of which
\* exactly one, the entry of currentKeyIndex, has isCurrent set.
C14_ExactlyOneCurrent ==
    /\ currentKeyIndex \in 0 .. nKeys - 1
    /\ issued = 0 => currentKeyIndex = 0
    /\ clientKey = currentKeyIndex
    /\ DOMAIN getUsageStats = 0 .. nKeys - 1
    /\ Cardinality({index \in DOMAIN getUsageStats : getUsageStats[index].isCurrent}) = 1
    /\ getUsageStats[currentKeyIndex].isCurrent
    /\ \A index \in DOMAIN getUsageStats : getUsageStats[index].keyIndex = index

\* C14 witness: rotation has gone once round a list of several keys and is
\* back at index 0.
C14_Witness ==
    /\ nKeys > 1
    /\ Len(rotLog) = nKeys
    /\ rotLog[Len(rotLog)].to = 0
    /\ currentKeyIndex = 0

\* Parts of C15.
C15_ExhaustedOnlyStep ==
    \A c \in Callers :
        /\ (result'[c].error = ErrAllKeys /\ result[c].error # ErrAllKeys) =>
              /\ RateLimitFailStep(c)
              /\ pc'[c] = "done"
              /\ \A k \in Keys : InCooldown(k)
              /\ \A k \in Keys : /\ k \in DOMAIN rateLimitResetTimes'
                                 /\ now' <= rateLimitResetTimes'[k]
        /\ (FailStep(c) /\ \E k \in Keys : ~InCooldown(k)) =>
              result'[c].error # ErrAllKeys
        /\ OtherFailStep(c) => result'[c].error # ErrAllKeys

\* C15: a dispatch ends with 'All API keys are rate limited' only on a
\* rate-limit failure met while every key of the list is in cooldown; any
\* failure met while some key is out of cooldown, and any failure that is not
\* a rate limit, never surfaces as that error.
C15_ExhaustedOnlyWhenAllCooling == [][C15_ExhaustedOnlyStep]_vars

\* C15 witness: a dispatch over a list of several keys ended with 'All API
\* keys are rate limited'.
C15_Witness ==
    /\ nKeys > 1
    /\ \E c \in Callers : pc[c] = "done" /\ result[c].error = ErrAllKeys

\* Parts of C16.
C16_CounterStep ==
    LET issuing == {c \in Callers : IssueStep(c)}
        failing == {c \in Callers : FailStep(c)}
    IN  /\ \A k \in Keys :
              /\ keyUsageStats'[k].requests >= keyUsageStats[k].requests
              /\ keyUsageStats'[k].errors >= keyUsageStats[k].errors
        /\ \A k \in Keys :
              keyUsageStats'[k].requests =
                  keyUsageStats[k].requests
                      + Cardinality({c \in issuing : usedKey'[c] = k})
        /\ \A k \in Keys :
              keyUsageStats'[k].errors =
                  keyUsageStats[k].errors
                      + (IF failing # {} /\ k = currentKeyIndex THEN 1 ELSE 0)
        /\ Cardinality(issuing) <= 1
        /\ Cardinality(failing) <= 1

\* C16: no step lowers the requests or the errors count of any key; a step
\* that issues a call adds exactly 1 to the requests of the key it is issued
\* with, a step in which a call fails adds exactly 1 to the errors of the
\* current key, and no other step changes either count.
C16_CountersOnlyGrow == [][C16_CounterStep]_vars

\* C16 witness: one key has counted several requests and several errors while
\* another key has counted a request as well.
C16_Witness ==
    \E k1, k2 \in Keys :
        /\ k1 # k2
        /\ keyUsageStats[k1].requests >= 2
        /\ keyUsageStats[k1].errors >= 2
        /\ keyUsageStats[k2].requests >= 1

\* ------------------------------------------------------------ construction
\* new PIIDetectionService(apiKeys, config), from the arguments to the
\* instance or the error.
ApiKeysArgs ==
    {JSUndefined, JSNull, JSString("AIzaSy-key-0")}
        \cup {JSArray([i \in 1 .. n |-> KeyText(i - 1)]) : n \in 0 .. MaxKeys}

ConfigArgs ==
    {Absent} \cup
    {Some([maxRetries |-> g, retryDelay |-> d]) :
        g \in {Absent} \cup {Some(m) : m \in 0 .. MaxRetriesIn},
        d \in {Absent, Some(ExplicitRetryDelay)}}

\* Before the constructor has run there is no instance: no key, no stats, no
\* client.
NoInstance ==
    /\ nKeys = 0
    /\ maxRetries = 0
    /\ retryDelay = 0
    /\ currentKeyIndex = 0
    /\ keyUsageStats = <<>>
    /\ rateLimitResetTimes = <<>>
    /\ clientKey = -1

InitConstruction ==
    /\ apiKeysArg \in ApiKeysArgs
    /\ configArg \in ConfigArgs
    /\ construction = "pending"
    /\ thrown = NoError
    /\ settled = NoResult
    /\ classified = NoResult
    /\ handled = FALSE
    /\ returned = Absent
    /\ NoRequest
    /\ NoContent
    /\ handling = DefaultHandling
    /\ NoInstance
    /\ now = 0
    /\ pc = [c \in Callers |-> "idle"]
    /\ attempt = [c \in Callers |-> 0]
    /\ usedKey = [c \in Callers |-> 0]
    /\ chargedKey = [c \in Callers |-> 0]
    /\ wakeAt = [c \in Callers |-> 0]
    /\ waits = [c \in Callers |-> <<>>]
    /\ calls = [c \in Callers |-> 0]
    /\ caught = [c \in Callers |-> NoError]
    /\ result = [c \in Callers |-> NoResult]
    /\ issued = 0
    /\ rotLog = <<>>

Construct ==
    /\ construction = "pending"
    /\ LET made == constructor(apiKeysArg, configArg)
       IN  IF made.thrown # NoError
           THEN /\ construction' = "threw"
                /\ thrown' = made.thrown
                /\ UNCHANGED <<config, pool>>
           ELSE /\ construction' = "built"
                /\ thrown' = NoError
                /\ nKeys' = made.this[1].nKeys
                /\ maxRetries' = made.this[1].maxRetries
                /\ retryDelay' = made.this[1].retryDelay
                /\ currentKeyIndex' = made.this[1].currentKeyIndex
                /\ keyUsageStats' = made.this[1].keyUsageStats
                /\ rateLimitResetTimes' = made.this[1].rateLimitResetTimes
                /\ clientKey' = made.this[1].clientKey
    /\ UNCHANGED <<chat, content, handling, apiKeysArg, configArg, settled, classified,
                   handled, returned, now, pc,
                   attempt, usedKey, chargedKey, wakeAt, waits, calls, caught,
                   result, issued, rotLog>>

ConstructionSpec == InitConstruction /\ [][Construct]_vars

\* C17: the constructor throws 'At least one API key is required', leaving no
\* instance behind, exactly when apiKeys is not a list or is an empty list
\* (an omitted argument counts as empty); for a list of N >= 1 keys it builds
\* an instance with currentKeyIndex 0, a client for key 0, no reset time and,
\* for each of the N keys, requests 0, errors 0, rateLimitHits 0 and lastUsed
\* absent.
C17_ConstructionOutcome ==
    construction # "pending" =>
        IF apiKeysArg.type # "array" \/ Len(apiKeysArg.items) = 0
        THEN /\ construction = "threw"
             /\ thrown = ErrNoKeys
             /\ NoInstance
        ELSE /\ construction = "built"
             /\ thrown = NoError
             /\ nKeys = Len(apiKeysArg.items)
             /\ currentKeyIndex = 0
             /\ clientKey = 0
             /\ rateLimitResetTimes = <<>>
             /\ DOMAIN keyUsageStats = 0 .. nKeys - 1
             /\ \A k \in Keys :
                   /\ keyUsageStats[k].requests = 0
                   /\ keyUsageStats[k].errors = 0
                   /\ keyUsageStats[k].rateLimitHits = 0
                   /\ keyUsageStats[k].lastUsed = Absent

\* C17 witness: the constructor was given an empty list and threw.
C17_Witness ==
    /\ construction = "threw"
    /\ apiKeysArg.type = "array"
    /\ thrown = ErrNoKeys

\* ------------------------------------------------------------ response text
\* A response text is a sequence of pieces: a blank, a line break, a ```
\* fence, a word, or the text of one JSON value.  Adjacent pieces are
\* adjacent in the string; words are separated only by the blanks written.
Blank == [t |-> "blank"]
LineBreak == [t |-> "linebreak"]
Fence == [t |-> "fence"]
Word(w) == [t |-> "word", w |-> w]
Json(value) == [t |-> "json", value |-> value]

isWhiteSpace(piece) == piece.t \in {"blank", "linebreak"}

RECURSIVE trimStart(_)
trimStart(text) ==
    IF text = <<>> THEN <<>>
    ELSE IF isWhiteSpace(Head(text)) THEN trimStart(Tail(text)) ELSE text

RECURSIVE trimEnd(_)
trimEnd(text) ==
    IF text = <<>> THEN <<>>
    ELSE IF isWhiteSpace(text[Len(text)])
         THEN trimEnd(SubSeq(text, 1, Len(text) - 1))
         ELSE text

\* String.prototype.trim()
trim(text) == trimEnd(trimStart(text))

\* The rest of text after its first n pieces and, if one follows, one line
\* break: the \n? of both patterns.
AfterMatch(text, n) ==
    LET rest == SubSeq(text, n + 1, Len(text))
    IN  IF rest # <<>> /\ Head(rest).t = "linebreak" THEN Tail(rest) ELSE rest

\* text.replace(/```json\n?/g, '')
RECURSIVE replaceFenceJson(_)
replaceFenceJson(text) ==
    IF text = <<>> THEN <<>>
    ELSE IF /\ Len(text) >= 2
            /\ text[1].t = "fence"
            /\ text[2].t = "word"
            /\ text[2].w = "json"
         THEN replaceFenceJson(AfterMatch(text, 2))
         ELSE <<Head(text)>> \o replaceFenceJson(Tail(text))

\* replaceFence without the g flag: only the first fence is removed.
replaceFenceFirst(text) ==
    IF \E i \in DOMAIN text : text[i].t = "fence"
    THEN LET first == CHOOSE i \in DOMAIN text :
                          /\ text[i].t = "fence"
                          /\ \A j \in 1 .. (i - 1) : text[j].t # "fence"
         IN  SubSeq(text, 1, first - 1) \o
                 (IF first < Len(text) /\ text[first + 1].t = "linebreak"
                  THEN SubSeq(text, first + 2, Len(text))
                  ELSE SubSeq(text, first + 1, Len(text)))
    ELSE text

\* text.replace(/```\n?/g, '')
RECURSIVE replaceFence(_)
replaceFence(text) ==
    IF text = <<>> THEN <<>>
    ELSE IF text[1].t = "fence"
         THEN replaceFence(AfterMatch(text, 1))
         ELSE <<Head(text)>> \o replaceFence(Tail(text))

\* JSON.parse(text): the value, or a SyntaxError.  White space around the
\* value is allowed; anything else beside it is not.
JSONparse(text) ==
    LET body == trim(text)
    IN  IF Len(body) = 1 /\ body[1].t = "json"
        THEN [threw |-> FALSE, value |-> body[1].value]
        ELSE [threw |-> TRUE, error |-> "SyntaxError"]

\* The strings written in a JSON value: its keys and its string values.
RECURSIVE stringsIn(_)
stringsIn(value) ==
    CASE value.type = "string" -> {value.chars}
      [] value.type = "array" ->
            UNION {stringsIn(value.items[i]) : i \in DOMAIN value.items}
      [] value.type = "object" ->
            (DOMAIN value.fields)
                \cup UNION {stringsIn(value.fields[n]) : n \in DOMAIN value.fields}
      [] OTHER -> {}

\* The words, keys and string values written in a text.
stringsOf(text) ==
    UNION {CASE text[i].t = "word" -> {text[i].w}
             [] text[i].t = "json" -> stringsIn(text[i].value)
             [] OTHER -> {} : i \in DOMAIN text}

\* The lower-case form of a string of the texts considered.
lowerCased(s) ==
    CASE s = "Detected" -> "detected"
      [] s = "EMAIL" -> "email"
      [] s = "JSON" -> "json"
      [] s = "hasPII" -> "haspii"
      [] s = "detectedItems" -> "detecteditems"
      [] s = "riskLevel" -> "risklevel"
      [] s = "imageContainsText" -> "imagecontainstext"
      [] OTHER -> s

\* The needles of the catch clause that occur in a string as it is written.
occurring(s) ==
    CASE s \in {"detected", "detecteditems", "detectedItems"} -> {"detected"}
      [] s = "found" -> {"found"}
      [] s \in {"phone", "telephone"} -> {"phone"}
      [] s = "email" -> {"email"}
      [] OTHER -> {}

\* toLowerCase without the lower-casing.
toLowerCaseAsWritten(text) == UNION {occurring(s) : s \in stringsOf(text)}

\* responseText.toLowerCase(), as includes() reads it: the needles that occur
\* in the lower-cased text.
toLowerCase(text) == UNION {occurring(lowerCased(s)) : s \in stringsOf(text)}

\* value[name] on a value that is neither null nor undefined.
get(value, name) ==
    IF value.type = "object" /\ name \in DOMAIN value.fields
    THEN value.fields[name]
    ELSE JSUndefined

truthy(value) ==
    CASE value.type \in {"undefined", "null"} -> FALSE
      [] value.type = "boolean" -> value.bool
      [] value.type = "number" -> value.num # 0
      [] value.type = "string" -> value.chars # ""
      [] OTHER -> TRUE

\* or with the default forgotten.
orNothing(value, default) == value

\* value || default
or(value, default) == IF truthy(value) THEN value ELSE default

FailedToParse == "Failed to parse response, flagging as potential PII"

\* parseDetectionResult, the try block: the result it returns, or the error
\* it throws.
tryBlock(responseText) ==
    LET cleanedText == trim(replaceFence(replaceFenceJson(trim(responseText))))
        parsed == JSONparse(cleanedText)
    IN  IF parsed.threw THEN parsed
        ELSE IF parsed.value.type \in {"null", "undefined"}
             THEN [threw |-> TRUE, error |-> "TypeError"]
             ELSE [threw |-> FALSE,
                   value |->
                     [hasPII            |-> or(get(parsed.value, "hasPII"), JSBoolean(FALSE)),
                      confidence        |-> or(get(parsed.value, "confidence"), JSNumber(0)),
                      detectedItems     |-> or(get(parsed.value, "detectedItems"), JSArray(<<>>)),
                      reasoning         |-> or(get(parsed.value, "reasoning"), JSString("")),
                      riskLevel         |-> or(get(parsed.value, "riskLevel"), JSString("low")),
                      imageContainsText |-> get(parsed.value, "imageContainsText")]]

\* parseDetectionResult, the catch clause.
catchBlock(responseText) ==
    LET hasPIIIndicators ==
            \/ includes(toLowerCase(responseText), "detected")
            \/ includes(toLowerCase(responseText), "found")
            \/ includes(toLowerCase(responseText), "phone")
            \/ includes(toLowerCase(responseText), "email")
    IN  [threw |-> FALSE,
         value |-> [hasPII        |-> JSBoolean(hasPIIIndicators),
                    confidence    |-> JSNumber(50),
                    detectedItems |-> JSArray(<<>>),
                    reasoning     |-> JSString(FailedToParse),
                    riskLevel     |-> JSString("medium"),
                    rawResponse   |-> responseText]]

\* parseDetectionResult without its catch clause.
parseDetectionResultUncaught(responseText) == tryBlock(responseText)

parseDetectionResult(responseText) ==
    LET tried == tryBlock(responseText)
    IN  IF tried.threw THEN catchBlock(responseText) ELSE tried

\* ----------------------------------------------------------- classification
\* detectPIIInText from the moment its callGeminiWithRetry has settled.
MaxWords == 2            \* longest run of words in a response text

Words == {"Detected", "found", "telephone", "EMAIL", "hello"}

\* Words separated by single blanks.
RECURSIVE Spaced(_)
Spaced(ws) ==
    IF Len(ws) <= 1 THEN [i \in DOMAIN ws |-> Word(ws[i])]
    ELSE <<Word(Head(ws)), Blank>> \o Spaced(Tail(ws))

Prose == {Spaced(ws) : ws \in UNION {[1 .. n -> Words] : n \in 0 .. MaxWords}}

FullItem ==
    JSObject([type |-> JSString("phone"), description |-> JSString("a number"),
              severity |-> JSString("high")])
BareItem == JSObject([description |-> JSString("an address")])

\* A field of the upstream record: left out, or one of the values given.
Opt(values) == values \cup {JSUndefined}

\* The record holding the fields that are not left out.
RecordOf(fields) ==
    JSObject([n \in {f \in DOMAIN fields : fields[f].type # "undefined"} |-> fields[n]])

UpstreamRecords ==
    {RecordOf([hasPII |-> h, confidence |-> c, detectedItems |-> d,
               reasoning |-> r, riskLevel |-> l, imageContainsText |-> i]) :
        h \in Opt({JSBoolean(TRUE), JSBoolean(FALSE), JSNull}),
        c \in Opt({JSNumber(0), JSNumber(95), JSNumber(150)}),
        d \in Opt({JSArray(<<>>), JSArray(<<FullItem>>), JSArray(<<BareItem>>)}),
        r \in Opt({JSString(""), JSString("x")}),
        l \in Opt({JSString("high"), JSString("critical"), JSString("severe"), JSString("")}),
        i \in Opt({JSBoolean(TRUE)})}

OtherJsonValues ==
    {JSNull, JSNumber(5), JSString("found"), JSBoolean(TRUE), JSArray(<<>>)}

OnlyFlag == RecordOf([hasPII |-> JSBoolean(TRUE)])

Bodies ==
    {<<Json(v)>> : v \in UpstreamRecords \cup OtherJsonValues}
        \cup Prose
        \cup {<<Json(v), Blank, Word(w)>> : v \in OtherJsonValues \cup {OnlyFlag}, w \in Words}
        \cup {<<Word(w), Blank, Json(v)>> : v \in OtherJsonValues \cup {OnlyFlag}, w \in Words}

Leads ==
    {<<>>, <<Blank>>, <<Fence, Word("json"), LineBreak>>,
     <<Blank, Fence, Word("json"), LineBreak>>, <<Fence, LineBreak>>}

Trails == {<<>>, <<LineBreak>>, <<LineBreak, Fence>>, <<LineBreak, Fence, Blank>>}

ResponseTexts ==
    {lead \o body \o trail : lead \in Leads, body \in Bodies, trail \in Trails}

\* What one callGeminiWithRetry over a single key with maxRetries 0 settles
\* with: the response text, or the error of its only attempt.
Settlements ==
    {[kind |-> "text", text |-> text, error |-> NoError] : text \in ResponseTexts}
        \cup {[kind |-> "error", text |-> <<>>, error |-> error] : error \in UpstreamErrors}

\* Caller 1 of a service built with one key and maxRetries 0 has had its only
\* attempt settled.
Classifying(settlements, handlings) ==
    /\ settled \in settlements
    /\ classified = NoResult
    /\ handled = FALSE
    /\ returned = Absent
    /\ NoRequest
    /\ content = [c \in Callers |-> IF c = 1 THEN TextContent(JSString("call me")) ELSE NoCall]
    /\ handling \in handlings
    /\ apiKeysArg = JSArray(<<KeyText(0)>>)
    /\ configArg = Some([maxRetries |-> Some(0), retryDelay |-> Absent])
    /\ construction = "built"
    /\ thrown = NoError
    /\ nKeys = 1
    /\ maxRetries = 0
    /\ retryDelay = DefaultRetryDelay
    /\ currentKeyIndex = 0
    /\ keyUsageStats =
          [k \in {0} |-> [requests |-> 1,
                          errors |-> IF settled.kind = "error" THEN 1 ELSE 0,
                          lastUsed |-> Some(0),
                          rateLimitHits |-> 0]]
    /\ rateLimitResetTimes = <<>>
    /\ clientKey = 0
    /\ now = 0
    /\ pc = [c \in Callers |-> IF c = 1 THEN "done" ELSE "idle"]
    /\ attempt = [c \in Callers |-> IF c = 1 THEN 1 ELSE 0]
    /\ usedKey = [c \in Callers |-> 0]
    /\ chargedKey = [c \in Callers |-> 0]
    /\ wakeAt = [c \in Callers |-> 0]
    /\ waits = [c \in Callers |-> <<>>]
    /\ calls = [c \in Callers |-> IF c = 1 THEN 1 ELSE 0]
    /\ caught = [c \in Callers |-> IF c = 1 THEN settled.error ELSE NoError]
    /\ result = [c \in Callers |-> IF c = 1 THEN settled ELSE NoResult]
    /\ issued = 1
    /\ rotLog = <<>>

InitClassification == Classifying(Settlements, {DefaultHandling})

\* ---- handleDetection
\* What an awaited step did: the side effects in order, and whether it
\* rejected.
Did(steps) == [threw |-> FALSE, steps |-> steps]
Rejected(steps) == [threw |-> TRUE, steps |-> steps]

SaveOutcomes == {"saved", "rejects"}
FetchOutcomes == {"ok", "notOk", "rejects"}

\* saveToDatabase(detectionData): a stub that logs, standing for the save
\* the integrator puts there; that save may reject.
saveToDatabase(saved) ==
    IF saved = "rejects" THEN Rejected(<<"save">>) ELSE Did(<<"save">>)

\* notifyAdmin, lines 390-417: fetch rejects or answers, !response.ok throws,
\* and the catch clause logs whatever was thrown.
notifyAdmin(fetched) ==
    IF fetched = "ok"
    THEN Did(<<"fetch", "notified">>)
    ELSE Did(<<"fetch", "webhookError">>)

\* try { await step } catch (error) { console.error(label, error) } left
\* without its catch.
caughtNot(step, label) == step

\* try { await step } catch (error) { console.error(label, error) }
caughtWith(step, label) ==
    IF step.threw THEN Did(step.steps \o <<label>>) ELSE step

\* Two awaited parts one after the other: the second runs if the first did
\* not reject.
then(first, second) ==
    IF first.threw THEN first
    ELSE [threw |-> second.threw, steps |-> first.steps \o second.steps]

\* handleDetection, lines 357-384.
handleDetection(cfg, saved, fetched) ==
    LET logged == IF cfg.enableLogging THEN Did(<<"log">>) ELSE Did(<<>>)
        save == IF truthy(cfg.databaseUrl)
                THEN caughtWith(saveToDatabase(saved), "databaseSaveError")
                ELSE Did(<<>>)
        notify == IF truthy(cfg.adminWebhook)
                  THEN caughtWith(notifyAdmin(fetched), "adminNotificationError")
                  ELSE Did(<<>>)
    IN  then(then(logged, save), notify)

\* detectPIIInText, lines 107-124: rethrow what callGeminiWithRetry threw, or
\* parse its text, await handleDetection when detection.hasPII, and return
\* the detection; whatever is thrown on the way is rethrown.
Classify(saved, fetched) ==
    /\ classified.kind = "none"
    /\ IF settled.kind = "error"
       THEN /\ classified' = [kind |-> "error", error |-> settled.error]
            /\ handled' = FALSE
            /\ handling' = handling
       ELSE LET detection == parseDetectionResult(settled.text)
            IN  IF detection.threw
                THEN /\ classified' = [kind |-> "error", error |-> detection.error]
                     /\ handled' = FALSE
                     /\ handling' = handling
                ELSE IF truthy(detection.value.hasPII)
                THEN LET done == handleDetection(handling, saved, fetched)
                     IN  /\ handled' = TRUE
                         /\ handling' = [handling EXCEPT !.steps = done.steps]
                         /\ classified' =
                                IF done.threw
                                THEN [kind |-> "error", error |-> "handleDetection"]
                                ELSE [kind |-> "detection", detection |-> detection.value]
                ELSE /\ classified' = [kind |-> "detection", detection |-> detection.value]
                     /\ handled' = FALSE
                     /\ handling' = handling
    /\ UNCHANGED <<chat, content, apiKeysArg, configArg, construction, thrown, settled,
                   returned, config, pool, now, pc, attempt, usedKey, chargedKey,
                   wakeAt, waits, calls, caught, result, issued, rotLog>>

NextClassification == \E saved \in SaveOutcomes, fetched \in FetchOutcomes : Classify(saved, fetched)

ClassificationSpec == InitClassification /\ [][NextClassification]_vars

\* The cleaned text of the settled response, parsed.
Parsed == JSONparse(trim(replaceFence(replaceFenceJson(trim(settled.text)))))

ResultFields == {"hasPII", "confidence", "detectedItems", "reasoning", "riskLevel"}

\* C18: whatever text callGeminiWithRetry returned, parseDetectionResult
\* throws nothing and returns a record with the five result fields, and
\* detectPIIInText returns that record; detectPIIInText fails only with the
\* error callGeminiWithRetry failed with.
C18_NormalizeIsTotal ==
    classified.kind # "none" =>
        IF settled.kind = "text"
        THEN /\ ~parseDetectionResult(settled.text).threw
             /\ classified.kind = "detection"
             /\ classified.detection = parseDetectionResult(settled.text).value
             /\ ResultFields \subseteq DOMAIN classified.detection
        ELSE /\ classified.kind = "error"
             /\ classified.error = settled.error
             /\ classified.error \in UpstreamErrors

\* C18 witness: the response was the JSON text null inside a fence, on which
\* the try block fails after JSON.parse has succeeded, and detectPIIInText
\* still returned a detection.
C18_Witness ==
    /\ settled.kind = "text"
    /\ settled.text = <<Fence, Word("json"), LineBreak, Json(JSNull), LineBreak, Fence>>
    /\ classified.kind = "detection"

\* The default of each result field, and the type its values have.
DefaultOf ==
    [hasPII |-> JSBoolean(FALSE), confidence |-> JSNumber(0),
     detectedItems |-> JSArray(<<>>), reasoning |-> JSString(""),
     riskLevel |-> JSString("low")]

\* The record of the second example: every field present.
FullRecord ==
    RecordOf([hasPII |-> JSBoolean(TRUE), confidence |-> JSNumber(95),
              detectedItems |-> JSArray(<<>>), reasoning |-> JSString("x"),
              riskLevel |-> JSString("high")])

\* C19: when the cleaned text parses to a record, each result field the
\* record lacks has its default (hasPII false, confidence 0, detectedItems
\* [], reasoning '', riskLevel 'low') whatever the other fields are, and each
\* field the record holds with a value of the field's type is that value (an
\* empty riskLevel, which names no level, counts as lacking); so
\* {"hasPII": true} alone gives hasPII true and the four defaults, and the
\* full record gives back its own hasPII, confidence and riskLevel.
C19_FieldByField ==
    (classified.kind = "detection" /\ ~Parsed.threw /\ Parsed.value.type = "object") =>
        LET record == Parsed.value.fields
            detection == classified.detection
        IN  /\ \A f \in ResultFields :
                  /\ f \notin DOMAIN record => detection[f] = DefaultOf[f]
                  /\ (f \in DOMAIN record /\ record[f].type = DefaultOf[f].type) =>
                        detection[f] = IF f = "riskLevel" /\ record[f] = JSString("")
                                       THEN DefaultOf[f]
                                       ELSE record[f]
            /\ Parsed.value = OnlyFlag =>
                  /\ detection.hasPII = JSBoolean(TRUE)
                  /\ \A f \in ResultFields \ {"hasPII"} : detection[f] = DefaultOf[f]
            /\ Parsed.value = FullRecord =>
                  /\ detection.hasPII = JSBoolean(TRUE)
                  /\ detection.confidence = JSNumber(95)
                  /\ detection.riskLevel = JSString("high")

\* C19 witness: the response was {"hasPII": true} inside a json fence and was
\* classified as a detection with hasPII true.
C19_Witness ==
    /\ settled.kind = "text"
    /\ settled.text = <<Fence, Word("json"), LineBreak, Json(OnlyFlag), LineBreak, Fence>>
    /\ classified.kind = "detection"
    /\ classified.detection.hasPII = JSBoolean(TRUE)

Triggers == {"detected", "found", "phone", "email"}

\* A trigger occurs in the lower-case form of some string of the text.
HasTrigger(text) ==
    \E s \in stringsOf(text), needle \in Triggers : needle \in occurring(lowerCased(s))

\* C20: when JSON.parse fails on the cleaned text, the result is the fallback:
\* hasPII is true exactly when the lower-cased response contains 'detected',
\* 'found', 'phone' or 'email', confidence is 50, riskLevel is 'medium',
\* detectedItems is [] and reasoning is the fixed 'Failed to parse response'
\* sentence; a response of the word hello alone is not flagged, one of the
\* word Detected alone is.
C20_FallbackResult ==
    (classified.kind = "detection" /\ Parsed.threw) =>
        LET detection == classified.detection
        IN  /\ detection.hasPII = JSBoolean(HasTrigger(settled.text))
            /\ detection.confidence = JSNumber(50)
            /\ detection.riskLevel = JSString("medium")
            /\ detection.detectedItems = JSArray(<<>>)
            /\ detection.reasoning = JSString(FailedToParse)
            /\ detection.rawResponse = settled.text
            /\ settled.text = <<Word("hello")>> => detection.hasPII = JSBoolean(FALSE)
            /\ settled.text = <<Word("Detected")>> => detection.hasPII = JSBoolean(TRUE)

\* C20 witness: a response of prose with a capitalised trigger word was
\* classified with the fallback and flagged.
C20_Witness ==
    /\ settled.kind = "text"
    /\ settled.text = <<Word("hello"), Blank, Word("Detected")>>
    /\ classified.kind = "detection"
    /\ classified.detection.confidence = JSNumber(50)
    /\ classified.detection.hasPII = JSBoolean(TRUE)

Severities == {"critical", "high", "medium", "low"}

\* C21: every detection returned has a number from 0 to 100 as confidence and
\* one of critical, high, medium, low as riskLevel.
C21_ConfidenceAndSeverityInRange ==
    classified.kind = "detection" =>
        /\ classified.detection.confidence.type = "number"
        /\ classified.detection.confidence.num \in 0 .. 100
        /\ classified.detection.riskLevel.type = "string"
        /\ classified.detection.riskLevel.chars \in Severities

\* C22: when the cleaned text parses to a value that is no record (a number,
\* a string, a boolean, an array or null), the result is the fallback, with
\* confidence 50 and riskLevel 'medium'.
C22_NonRecordIsFallback ==
    (classified.kind = "detection" /\ ~Parsed.threw /\ Parsed.value.type # "object") =>
        /\ classified.detection.confidence = JSNumber(50)
        /\ classified.detection.riskLevel = JSString("medium")
        /\ classified.detection.reasoning = JSString(FailedToParse)

\* --------------------------------------------------------------- telemetry
\* getUsageStats() called, and its result written to, while a dispatch runs.

\* A key that differs from KeyText(index) after its eighth character only.
AltKeyText(index) ==
    <<"A", "I", "z", "a", "S", "y", "-", "k", "e", "y", "+">> \o <<ToString(index)>>

\* A key that differs from KeyText(index) in its first character.
OtherKeyText(index) ==
    <<"B", "I", "z", "a", "S", "y", "-", "k", "e", "y", "-">> \o <<ToString(index)>>

\* Lists of n keys, the first of them in either of two spellings.
KeyLists(n) ==
    {[i \in 1 .. n |-> IF i = 1 THEN first ELSE KeyText(i - 1)] :
        first \in {KeyText(0), AltKeyText(0)}}

\* A service built with default configuration from a list of keys.
InitTelemetry ==
    /\ \E n \in 1 .. MaxKeys : \E keys \in KeyLists(n) : apiKeysArg = JSArray(keys)
    /\ configArg = Absent
    /\ construction = "built"
    /\ thrown = NoError
    /\ LET made == constructor(apiKeysArg, configArg).this[1]
       IN  /\ nKeys = made.nKeys
           /\ maxRetries = made.maxRetries
           /\ retryDelay = made.retryDelay
           /\ currentKeyIndex = made.currentKeyIndex
           /\ keyUsageStats = made.keyUsageStats
           /\ rateLimitResetTimes = made.rateLimitResetTimes
           /\ clientKey = made.clientKey
    /\ now = 0
    /\ pc = [c \in Callers |-> "idle"]
    /\ attempt = [c \in Callers |-> 0]
    /\ usedKey = [c \in Callers |-> 0]
    /\ chargedKey = [c \in Callers |-> 0]
    /\ wakeAt = [c \in Callers |-> 0]
    /\ waits = [c \in Callers |-> <<>>]
    /\ calls = [c \in Callers |-> 0]
    /\ caught = [c \in Callers |-> NoError]
    /\ result = [c \in Callers |-> NoResult]
    /\ issued = 0
    /\ rotLog = <<>>
    /\ settled = NoResult
    /\ classified = NoResult
    /\ handled = FALSE
    /\ returned = Absent
    /\ NoRequest
    /\ NoContent
    /\ handling = DefaultHandling

\* The map callback returning the pool's own record for the index, with the
\* three telemetry fields added to it.
entryObjectShared(index, fields) == [identity |-> Some(index), fields |-> fields]

\* What the map callback of getUsageStats returns for an index: an object
\* literal, so an object of its own (identity Absent: no object of the pool),
\* into which the spread has copied the four fields of keyUsageStats[index].
entryObject(index, fields) == [identity |-> Absent, fields |-> fields]

StatsFields == {"requests", "errors", "lastUsed", "rateLimitHits"}

GetUsageStats ==
    /\ returned' = Some([entries |-> [index \in Keys |->
                                          entryObject(index, getUsageStats[index])],
                         written |-> FALSE])
    /\ UNCHANGED <<chat, content, handling, apiKeysArg, configArg, construction, thrown,
                   settled, classified,
                   handled, config, pool, now, pc, attempt, usedKey, chargedKey,
                   wakeAt, waits, calls, caught, result, issued, rotLog>>

\* The caller of getUsageStats writes to a field of a record it was given.  A
\* write to an object of the pool is a write to keyUsageStats.
WriteReturned(index, field) ==
    /\ returned # Absent
    /\ ~returned[1].written
    /\ index \in DOMAIN returned[1].entries
    /\ LET entry == returned[1].entries[index]
           value == IF field = "isCurrent" THEN ~entry.fields[field]
                                           ELSE entry.fields[field] + 1
       IN  /\ returned' = Some([entries |-> [returned[1].entries EXCEPT
                                                ![index].fields[field] = value],
                                written |-> TRUE])
           /\ IF entry.identity # Absent /\ field \in StatsFields
              THEN keyUsageStats' =
                       [keyUsageStats EXCEPT ![entry.identity[1]][field] = value]
              ELSE UNCHANGED keyUsageStats
    /\ UNCHANGED <<chat, content, handling, apiKeysArg, configArg, construction, thrown,
                   settled, classified,
                   handled, config, currentKeyIndex, rateLimitResetTimes, clientKey,
                   now, pc, attempt, usedKey, chargedKey, wakeAt, waits, calls,
                   caught, result, issued, rotLog>>

NextTelemetry ==
    \/ \E c \in Callers : StartDispatch(c)
    \/ \E c \in Callers, text \in RawTexts : CallSucceeds(c, text)
    \/ \E c \in Callers, error \in UpstreamErrors : CallFails(c, error)
    \/ \E c \in Callers : WakeAfterRateLimit(c)
    \/ \E c \in Callers : WakeAfterBackoff(c)
    \/ AdvanceClock
    \/ GetUsageStats
    \/ \E index \in Keys, field \in {"requests", "isCurrent"} : WriteReturned(index, field)

TelemetrySpec == InitTelemetry /\ [][NextTelemetry]_vars

\* The step in which getUsageStats() returns, and the step in which its
\* caller writes to what it returned.
StatsStep == returned' # returned /\ returned' # Absent /\ ~returned'[1].written
WriteStep ==
    /\ returned # Absent /\ ~returned[1].written
    /\ returned' # Absent /\ returned'[1].written

\* Parts of C23.
C23_FrameStep ==
    /\ StatsStep =>
          /\ UNCHANGED <<keyUsageStats, rateLimitResetTimes, currentKeyIndex, clientKey>>
          /\ \A index \in Keys : returned'[1].entries[index].fields = getUsageStats[index]
    /\ WriteStep =>
          /\ UNCHANGED <<keyUsageStats, rateLimitResetTimes, currentKeyIndex, clientKey>>
          /\ getUsageStats' = getUsageStats
          /\ \E index \in Keys : returned'[1].entries[index].fields # getUsageStats'[index]

\* C23: a call of getUsageStats() changes no counter, no reset time and not
\* currentKeyIndex, and returns the pool's figures; a write by the caller to a
\* record it was given changes that record only: keyUsageStats, the reset
\* times and currentKeyIndex stay as they were, and so does what
\* getUsageStats() returns from then on.
C23_StatsReadOnly == [][C23_FrameStep]_vars

\* C23 witness: the caller has raised requests in a returned record of a key
\* that had been used, and the pool still holds the count it had.
C23_Witness ==
    /\ returned # Absent
    /\ returned[1].written
    /\ \E index \in Keys :
          /\ keyUsageStats[index].requests >= 1
          /\ returned[1].entries[index].fields.requests = keyUsageStats[index].requests + 1

\* Every list of nKeys keys in which each key is spelt in one of three ways.
SpelledKeyLists ==
    {[index \in Keys |-> CASE spelling[index] = "alt" -> AltKeyText(index)
                           [] spelling[index] = "other" -> OtherKeyText(index)
                           [] OTHER -> KeyText(index)] :
        spelling \in [Keys -> {"same", "alt", "other"}]}

\* Parts of C24.
C24_PreviewStep ==
    StatsStep =>
        /\ \A index \in Keys :
              LET preview == returned'[1].entries[index].fields.keyPreview
              IN  /\ Len(preview) < Len(apiKeys[index])
                  /\ preview = SubSeq(apiKeys[index], 1, 8) \o <<".", ".", ".">>
        /\ \A keys \in SpelledKeyLists :
              (\A index \in Keys : SubSeq(keys[index], 1, 8) = SubSeq(apiKeys[index], 1, 8))
                  => \A index \in Keys :
                        returned'[1].entries[index].fields = UsageStatsOf(keys)[index]

\* C24: what getUsageStats() returns shows of each key its first 8 characters
\* followed by '...', which is shorter than the key, and nothing else of it: a
\* service with the same usage figures whose keys have the same first 8
\* characters returns the same records.
C24_PreviewOnlyPrefix == [][C24_PreviewStep]_vars

\* C24 witness: getUsageStats() has returned the figures of a used service
\* whose first key is the differently ending spelling.
C24_Witness ==
    /\ returned # Absent
    /\ ~returned[1].written
    /\ apiKeys[0] = AltKeyText(0)
    /\ returned[1].entries[0].fields.requests >= 1

\* --------------------------------------------------------- chat middleware
\* ChatPIIMiddleware.checkTextMessage / checkImageMessage
\* (src/unnamed/part_000) in front of the service; the request's detection
\* is the dispatch of caller 1.

DataUrl == "data:image/png;base64,QUJD"

\* imageData.match(/^data:(.+);base64,(.+)$/): the two groups, or no match.
matchDataUrl(chars) ==
    IF chars = DataUrl THEN Some(<<"image/png", "QUJD">>) ELSE Absent

Messages == {JSUndefined, JSString(""), JSString("call me"), JSNumber(5)}
SenderIds == {JSUndefined, JSString("u1")}
ImageDatas ==
    {JSUndefined, JSString(DataUrl), JSString("QUJD"),
     JSObject([base64 |-> JSString("QUJD"), mimeType |-> JSString("image/png")]),
     JSObject([url |-> JSString("x")])}
Files ==
    {JSUndefined,
     JSObject([buffer |-> JSString("FILE"), mimetype |-> JSString("image/gif"),
               originalname |-> JSString("a.gif")])}
\* What the client may have put into the body fields the middleware writes.
ClientFlags == {JSUndefined, JSBoolean(TRUE)}

Requests ==
    {[route |-> "text",
      body |-> [message |-> m, senderId |-> s, imageData |-> JSUndefined,
                flagged |-> f, flagReason |-> JSUndefined, detection |-> JSUndefined],
      file |-> JSUndefined,
      piiDetection |-> JSUndefined] :
        m \in Messages, s \in SenderIds, f \in ClientFlags}
    \cup
    {[route |-> "image",
      body |-> [message |-> JSUndefined, senderId |-> s, imageData |-> i,
                flagged |-> f, flagReason |-> JSUndefined, detection |-> JSUndefined],
      file |-> file,
      piiDetection |-> JSUndefined] :
        i \in ImageDatas, file \in Files, s \in SenderIds, f \in ClientFlags}

\* What parseDetectionResult can return to the middleware.
Detections ==
    {parseDetectionResult(text).value :
        text \in {<<Json(OnlyFlag)>>, <<Json(FullRecord)>>, <<Json(JSObject(<<>>))>>,
                  <<Word("hello")>>, <<Word("Detected")>>}}

ErrInvalidText == [message |-> {"Valid text string is required"}, status |-> 0]

\* A service with one key, maxRetries 2 and a short retryDelay, idle, and a
\* request arriving at the middleware.
InitMiddleware ==
    /\ req \in {Some(r) : r \in Requests}
    /\ res = Absent
    /\ nextCalls = 0
    /\ blockOnDetection \in BOOLEAN
    /\ handler = [at |-> "start"]
    /\ NoContent
    /\ handling = DefaultHandling
    /\ apiKeysArg = JSArray(<<KeyText(0)>>)
    /\ configArg = Some([maxRetries |-> Some(2), retryDelay |-> Some(ExplicitRetryDelay)])
    /\ construction = "built"
    /\ thrown = NoError
    /\ LET made == constructor(apiKeysArg, configArg).this[1]
       IN  /\ nKeys = made.nKeys
           /\ maxRetries = made.maxRetries
           /\ retryDelay = made.retryDelay
           /\ currentKeyIndex = made.currentKeyIndex
           /\ keyUsageStats = made.keyUsageStats
           /\ rateLimitResetTimes = made.rateLimitResetTimes
           /\ clientKey = made.clientKey
    /\ now = 0
    /\ pc = [c \in Callers |-> "idle"]
    /\ attempt = [c \in Callers |-> 0]
    /\ usedKey = [c \in Callers |-> 0]
    /\ chargedKey = [c \in Callers |-> 0]
    /\ wakeAt = [c \in Callers |-> 0]
    /\ waits = [c \in Callers |-> <<>>]
    /\ calls = [c \in Callers |-> 0]
    /\ caught = [c \in Callers |-> NoError]
    /\ result = [c \in Callers |-> NoResult]
    /\ issued = 0
    /\ rotLog = <<>>
    /\ settled = NoResult
    /\ classified = NoResult
    /\ handled = FALSE
    /\ returned = Absent

\* imageFile.buffer.toString('base64')
toStringBase64(bytes) ==
    CASE bytes = "FILE" -> "RklMRQ=="
      [] bytes = "" -> ""

\* checkImageMessage lines 94-120: the image handed to detectPIIInImage.
imagePayload(imageData, imageFile) ==
    IF truthy(imageFile)
    THEN [base64 |-> JSString(toStringBase64(get(imageFile, "buffer").chars)),
          mimeType |-> get(imageFile, "mimetype")]
    ELSE IF truthy(imageData)
    THEN IF imageData.type = "string"
         THEN LET matches == matchDataUrl(imageData.chars)
              IN  IF matches # Absent
                  THEN [base64 |-> JSString(matches[1][2]), mimeType |-> JSString(matches[1][1])]
                  ELSE [base64 |-> imageData, mimeType |-> JSString("image/jpeg")]
         ELSE IF "base64" \in DOMAIN imageData.fields /\ "mimeType" \in DOMAIN imageData.fields
         THEN [base64 |-> get(imageData, "base64"), mimeType |-> get(imageData, "mimeType")]
         ELSE [base64 |-> JSString(""), mimeType |-> JSString("image/jpeg")]
    ELSE [base64 |-> JSString(""), mimeType |-> JSString("image/jpeg")]

json(status, payload) == Some([status |-> status, payload |-> payload])

\* What a middleware step leaves of the request, the response and next().
Outcome(request, response, called) ==
    [req |-> request, res |-> response, next |-> called]

flagReasonOf(route) == IF route = "text" THEN "PII_DETECTED" ELSE "PII_IN_IMAGE"
blockedErrorOf(route) ==
    IF route = "text" THEN "Message blocked: Contains contact information"
    ELSE "Image blocked: Contains contact information"

\* afterDetection forwarding whatever the configuration says.
afterDetectionNeverBlocks(request, detection, block) ==
    Outcome([request EXCEPT !.piiDetection = detection], Absent, 1)

\* Lines 43-69 and 133-159: the code after the await, detection in hand.
afterDetection(request, detection, block) ==
    LET seen == [request EXCEPT !.piiDetection = detection]
    IN  IF truthy(detection.hasPII)
        THEN IF block
             THEN Outcome(seen,
                          json(403, [success |-> FALSE,
                                     error |-> blockedErrorOf(request.route),
                                     detection |-> [hasPII |-> JSBoolean(TRUE),
                                                    riskLevel |-> detection.riskLevel]]),
                          0)
             ELSE Outcome([seen EXCEPT
                             !.body.flagged = JSBoolean(TRUE),
                             !.body.flagReason = JSString(flagReasonOf(request.route)),
                             !.body.detection =
                                 JSObject([hasPII |-> JSBoolean(TRUE),
                                           riskLevel |-> detection.riskLevel,
                                           confidence |-> detection.confidence])],
                          Absent, 1)
        ELSE Outcome(seen, Absent, 1)

\* afterError answering the request with an error instead of forwarding it.
afterErrorResponds(request) ==
    Outcome(request, json(500, [error |-> "PII check failed"]), 0)

\* Lines 70-76 and 160-165: the catch clause.
afterError(request) ==
    Outcome([request EXCEPT !.body.flagged = JSBoolean(TRUE),
                            !.body.flagReason = JSString("PII_CHECK_ERROR")],
            Absent, 1)

\* The service's state that the synchronous part of a handler leaves alone.
untouched ==
    <<config, now, wakeAt, waits, result, rotLog, apiKeysArg, configArg,
      construction, thrown, returned>>
dispatching == <<pool, pc, attempt, usedKey, chargedKey, calls, caught, issued>>

Finish(outcome) ==
    /\ req' = Some(outcome.req)
    /\ res' = outcome.res
    /\ nextCalls' = nextCalls + outcome.next
    /\ handler' = [at |-> "done"]

\* checkTextMessage up to its await: lines 29-41, with detectPIIInText up to
\* the first generateContent of callGeminiWithRetry.
EnterText ==
    /\ handler.at = "start"
    /\ req[1].route = "text"
    /\ LET message == req[1].body.message
           senderId == req[1].body.senderId
       IN  IF ~truthy(message) \/ ~truthy(senderId)
           THEN /\ Finish(Outcome(req[1],
                                  json(400, [error |-> "Message and senderId are required"]),
                                  0))
                /\ UNCHANGED <<dispatching, content>>
           ELSE /\ UNCHANGED <<req, res, nextCalls>>
                /\ content' = [content EXCEPT ![1] = TextContent(message)]
                /\ IF message.type # "string"
                   THEN /\ handler' = [at |-> "awaiting", rejected |-> Some(ErrInvalidText)]
                        /\ UNCHANGED dispatching
                   ELSE /\ handler' = [at |-> "awaiting", rejected |-> Absent]
                        /\ IssueCall(1, Pool, 1)
    /\ UNCHANGED <<blockOnDetection, untouched, settled, classified, handled, handling>>

\* checkImageMessage up to its await: lines 85-131, with detectPIIInImage up
\* to the first generateContent of callGeminiWithRetry.
EnterImage ==
    /\ handler.at = "start"
    /\ req[1].route = "image"
    /\ LET imageData == req[1].body.imageData
           imageFile == req[1].file
       IN  IF ~truthy(imageData) /\ ~truthy(imageFile)
           THEN /\ Finish(Outcome(req[1], json(400, [error |-> "Image data is required"]), 0))
                /\ UNCHANGED <<dispatching, content>>
           ELSE /\ UNCHANGED <<req, res, nextCalls>>
                /\ content' = [content EXCEPT
                                   ![1] = ImageContent(JSObject(imagePayload(imageData, imageFile)))]
                /\ handler' = [at |-> "awaiting", rejected |-> Absent,
                               image |-> imagePayload(imageData, imageFile),
                               userId |-> or(req[1].body.senderId, JSString("unknown"))]
                /\ IssueCall(1, Pool, 1)
    /\ UNCHANGED <<blockOnDetection, untouched, settled, classified, handled, handling>>

\* The awaited detection rejects: detectPIIInText's own throw (line 103) or
\* the error callGeminiWithRetry ended with, rethrown at line 124 / 163.
DetectionRejects ==
    /\ handler.at = "awaiting"
    /\ \/ /\ handler.rejected # Absent
          /\ classified' = [kind |-> "error", error |-> handler.rejected[1]]
          /\ UNCHANGED settled
       \/ /\ handler.rejected = Absent
          /\ pc[1] = "done"
          /\ result[1].kind = "error"
          /\ settled' = result[1]
          /\ classified' = [kind |-> "error", error |-> result[1].error]
    /\ Finish(afterError(req[1]))
    /\ UNCHANGED <<blockOnDetection, untouched, dispatching, content, handled, handling>>

\* The awaited detection resolves: parseDetectionResult and handleDetection
\* (lines 113-121 / 152-160), then the middleware's lines 43-69 / 133-159.
DetectionResolves(detection) ==
    /\ handler.at = "awaiting"
    /\ handler.rejected = Absent
    /\ pc[1] = "done"
    /\ result[1].kind = "text"
    /\ settled' = result[1]
    /\ classified' = [kind |-> "detection", detection |-> detection]
    /\ handled' = truthy(detection.hasPII)
    /\ handling' = IF truthy(detection.hasPII)
                   THEN [handling EXCEPT !.steps = handleDetection(handling, "saved", "ok").steps]
                   ELSE handling
    /\ Finish(afterDetection(req[1], detection, blockOnDetection))
    /\ UNCHANGED <<blockOnDetection, untouched, dispatching, content>>

\* updateConfig(newConfig), lines 168-170, with blockOnDetection in newConfig.
updateConfig(block) ==
    /\ blockOnDetection' = block
    /\ UNCHANGED <<req, res, nextCalls, handler, untouched, dispatching,
                   content, settled, classified, handled, handling>>

NextMiddleware ==
    \/ EnterText
    \/ EnterImage
    \/ \E c \in Callers, text \in RawTexts : CallSucceeds(c, text)
    \/ \E c \in Callers, error \in UpstreamErrors : CallFails(c, error)
    \/ \E c \in Callers : WakeAfterRateLimit(c)
    \/ \E c \in Callers : WakeAfterBackoff(c)
    \/ AdvanceClock
    \/ DetectionRejects
    \/ \E detection \in Detections : DetectionResolves(detection)
    \/ \E block \in BOOLEAN : updateConfig(block)

MiddlewareSpec == InitMiddleware /\ [][NextMiddleware]_vars

\* The awaited detection resolved in this step, with the detection named.
ResolveStep == handler.at = "awaiting" /\ handler'.at = "done" /\ classified'.kind = "detection"
\* The awaited detection rejected in this step.
RejectStep == handler.at = "awaiting" /\ handler'.at = "done" /\ classified'.kind = "error"

Blocked == res # Absent /\ res[1].status = 403

C25_DecisionStep ==
    /\ ResolveStep =>
           LET detection == classified'.detection
               hasPII == truthy(detection.hasPII)
           IN  IF hasPII /\ blockOnDetection
               THEN /\ res' # Absent
                    /\ res'[1].status = 403
                    /\ nextCalls' = 0
               ELSE /\ res' = Absent
                    /\ nextCalls' = 1
                    /\ IF hasPII
                       THEN /\ req'[1].body.flagged = JSBoolean(TRUE)
                            /\ req'[1].body.flagReason \in
                                   {JSString("PII_DETECTED"), JSString("PII_IN_IMAGE")}
                            /\ req'[1].body.detection =
                                   JSObject([hasPII |-> JSBoolean(TRUE),
                                             riskLevel |-> detection.riskLevel,
                                             confidence |-> detection.confidence])
                       ELSE req'[1].body = req[1].body
    /\ handler.at = "done" => nextCalls' = nextCalls /\ res' = res /\ req' = req

C26_FailureStep ==
    /\ RejectStep =>
           /\ res' = Absent
           /\ nextCalls' = 1
           /\ req'[1].body.flagged = JSBoolean(TRUE)
           /\ req'[1].body.flagReason = JSString("PII_CHECK_ERROR")
    /\ (classified.kind = "error" /\ handler.at = "done") =>
           /\ res' = Absent
           /\ nextCalls' = 1

\* C26: when the detection fails (every key rate limited, or the upstream
\* error after the last retry), the middleware sends no response, whatever
\* blockOnDetection is, sets flagged = true and flagReason = PII_CHECK_ERROR,
\* and calls next() exactly once.
C26_FailOpenOnError == [][C26_FailureStep]_vars

C26_Witness ==
    /\ handler.at = "done"
    /\ classified.kind = "error"
    /\ classified.error = ErrAllKeys
    /\ blockOnDetection
    /\ nextCalls = 1
    /\ res = Absent

\* ------------------------------------------- rotation and concurrent callers

\* The three writes of one rotateAPIKey() call, as seen across a step.
HitCounted(k) == keyUsageStats'[k].rateLimitHits # keyUsageStats[k].rateLimitHits
ResetWritten(k) ==
    /\ k \in DOMAIN rateLimitResetTimes'
    /\ k \notin DOMAIN rateLimitResetTimes \/ rateLimitResetTimes'[k] # rateLimitResetTimes[k]
IndexMoved == currentKeyIndex' # currentKeyIndex

C27_RotationStep ==
    /\ \A k \in Keys :
           /\ HitCounted(k) =>
                  /\ k = currentKeyIndex
                  /\ currentKeyIndex' = (k + 1) % nKeys
                  /\ keyUsageStats'[k].rateLimitHits = keyUsageStats[k].rateLimitHits + 1
                  /\ k \in DOMAIN rateLimitResetTimes'
                  /\ rateLimitResetTimes'[k] = now + ResetWindow
           /\ ResetWritten(k) => HitCounted(k)
    /\ IndexMoved => HitCounted(currentKeyIndex)
    /\ clientKey' = currentKeyIndex'

\* C27: with callers interleaving, every step that moves currentKeyIndex also
\* counts the rate-limit hit of the key left behind and writes its reset
\* time, and every step that counts a hit or writes a reset time is the step
\* that moves the index off that key: no state between the steps of any
\* caller shows an index moved without the marking, or the reverse.
C27_RotationIsAtomic == [][C27_RotationStep]_vars

C27_Witness ==
    /\ \A c \in Callers : pc[c] \in {"call", "sleepBackoff", "sleepRL"}
    /\ currentKeyIndex = 1
    /\ keyUsageStats[0].rateLimitHits = 1
    /\ 0 \in DOMAIN rateLimitResetTimes

\* findAvailableKey() finds a key at this instant.
SomeKeyAvailable == \E k \in Keys : KeyAvailable(rateLimitResetTimes, k, now)

\* The retry of the rate-limit branch, lines 188-191: the wait, then the call.
RateLimitRetry(c) ==
    /\ (RateLimitFailStep(c) /\ attempt[c] <= maxRetries /\ SomeKeyAvailable) =>
           /\ pc'[c] = "sleepRL"
           /\ wakeAt'[c] = now + retryDelay
           /\ waits'[c] = Append(waits[c], retryDelay)
           /\ attempt'[c] = attempt[c]
           /\ calls'[c] = calls[c]
    /\ (pc[c] = "sleepRL" /\ pc'[c] # "sleepRL") =>
           /\ now >= wakeAt[c]
           /\ pc'[c] = "call"
           /\ attempt'[c] = attempt[c] + 1
           /\ calls'[c] = calls[c] + 1
           /\ usedKey'[c] = currentKeyIndex
           /\ chargedKey'[c] = currentKeyIndex
           /\ currentKeyIndex' = currentKeyIndex

\* The key findAvailableKey left current is still current when the wait ends.
KeyKeptWhileWaiting(c) ==
    (pc[c] = "sleepRL" /\ pc'[c] = "sleepRL") => currentKeyIndex' = currentKeyIndex

C28_AsClaimedStep == \A c \in Callers : RateLimitRetry(c) /\ KeyKeptWhileWaiting(c)

\* C28 as stated: after a rate-limit failure at attempt k <= maxRetries with
\* an available key, the caller waits retryDelay, increments the attempt and
\* issues the next call with the key that was current after findAvailableKey.
C28_RetryWithKeyFromFind == [][C28_AsClaimedStep]_vars

C28_RetryStep == \A c \in Callers : RateLimitRetry(c)

\* C28, amended: after a rate-limit failure at attempt k <= maxRetries with
\* an available key, the caller waits retryDelay (not retryDelay * 2^(k-1)),
\* then increments the attempt and issues the next call with the key that is
\* current when the wait ends.
C28_RetryAfterRateLimit == [][C28_RetryStep]_vars

\* A second attempt failed with a rate limit and was retried after
\* retryDelay, where the backoff would have been twice that.
C28_Witness ==
    \E c \in Callers :
        /\ pc[c] = "call"
        /\ attempt[c] = 3
        /\ Len(waits[c]) = 2
        /\ waits[c][2] = retryDelay
        /\ usedKey[c] = currentKeyIndex

\* C29: for every key, in every reachable state, errors <= requests: the
\* error of a failed attempt is counted against the key the attempt was
\* counted against, also when another caller rotated while the call was in
\* flight.
C29_ErrorsWithinRequests ==
    \A k \in Keys : keyUsageStats[k].errors <= keyUsageStats[k].requests

C30_ClientStep ==
    /\ \A c \in Callers :
           IssueStep(c) =>
               /\ usedKey'[c] = currentKeyIndex'
               /\ chargedKey'[c] = usedKey'[c]
               /\ keyUsageStats'[usedKey'[c]].requests =
                      keyUsageStats[usedKey'[c]].requests + 1
    /\ IndexMoved => clientKey' = currentKeyIndex'

\* C30: every upstream call is issued with the client built from the key at
\* currentKeyIndex, the key whose requests counter the attempt increments,
\* because every step that moves currentKeyIndex rebuilds the client.
C30_CallUsesCurrentKey == [][C30_ClientStep]_vars

C30_Witness ==
    \E c \in Callers :
        /\ pc[c] = "call"
        /\ currentKeyIndex = 2
        /\ usedKey[c] = 2
        /\ chargedKey[c] = 2
        /\ keyUsageStats[2].requests = 1

\* ----------------------------------------------------------- detected items

\* C31: every item of the detectedItems of a result parseDetectionResult
\* returns has a type (the category) and a severity, items of the upstream
\* record that lack one having been given a default.
C31_ItemsHaveCategoryAndSeverity ==
    (classified.kind = "detection" /\ classified.detection.detectedItems.type = "array") =>
        \A i \in DOMAIN classified.detection.detectedItems.items :
            LET item == classified.detection.detectedItems.items[i]
            IN  /\ get(item, "type") # JSUndefined
                /\ get(item, "severity") # JSUndefined

\* ------------------------------------------------------ fences and white space

IsJson(piece) == piece.t = "json"

\* The JSON values written in the settled response text.
Core == SelectSeq(settled.text, IsJson)

\* The settled text is one record, bare or inside a fence and white space.
WrappedRecord ==
    /\ settled.kind = "text"
    /\ Len(Core) = 1
    /\ Core[1].value.type = "object"
    /\ \E lead \in Leads, trail \in Trails : settled.text = lead \o Core \o trail

\* C32: for a response text that is one JSON record inside a ```json or ```
\* fence and white space, in front, behind or both, parseDetectionResult
\* returns what it returns for the record alone.
C32_FencesDoNotMatter ==
    (classified.kind = "detection" /\ WrappedRecord) =>
        classified.detection = parseDetectionResult(Core).value

C32_Witness ==
    /\ classified.kind = "detection"
    /\ settled.text = <<Blank, Fence, Word("json"), LineBreak, Json(FullRecord),
                       LineBreak, Fence, Blank>>
    /\ classified.detection.confidence = JSNumber(95)
    /\ classified.detection.reasoning = JSString("x")

\* ------------------------------------------------- validation of the content
\* detectPIIInText / detectPIIInImage from their call to the first await.

ErrNoImage == [message |-> {"Image data is required"}, status |-> 0]

TextArguments ==
    {JSUndefined, JSNull, JSString(""), JSString("call me"), JSNumber(5), JSNumber(0),
     JSArray(<<>>)}
ImageArguments ==
    {JSUndefined, JSNull, JSString(""), JSString("QUJD"),
     JSObject([base64 |-> JSString("QUJD"), mimeType |-> JSString("image/png")]),
     JSObject([base64 |-> JSString(""), mimeType |-> JSString("image/jpeg")])}
Contents ==
    {TextContent(value) : value \in TextArguments}
        \cup {ImageContent(value) : value \in ImageArguments}

\* textRejected testing only !text.
textRejectedOnlyFalsy(text) == ~truthy(text)

\* !text || typeof text !== 'string', line 100
textRejected(text) == ~truthy(text) \/ text.type # "string"

\* !imageData, line 133
imageRejected(imageData) == ~truthy(imageData)

\* Callers whose detect call reached callGeminiWithRetry.
Dispatched == Cardinality({c \in Callers : calls[c] > 0})

\* detectPIIInText(text, ...) / detectPIIInImage(imageData, ...) up to the
\* throw of lines 101 / 134, or up to the first generateContent.
Detect(c, argument) ==
    /\ pc[c] = "idle"
    /\ content' = [content EXCEPT ![c] = argument]
    /\ LET rejected == IF argument.kind = "text"
                       THEN textRejected(argument.value)
                       ELSE imageRejected(argument.value)
           error == IF argument.kind = "text" THEN ErrInvalidText ELSE ErrNoImage
       IN  IF rejected
           THEN /\ pc' = [pc EXCEPT ![c] = "done"]
                /\ result' = [result EXCEPT ![c] = [kind |-> "error", text |-> "", error |-> error]]
                /\ UNCHANGED <<pool, attempt, usedKey, chargedKey, calls, caught, issued>>
           ELSE /\ (Dispatched + 1) * (maxRetries + 1) <= MaxIssued
                /\ IssueCall(c, Pool, 1)
                /\ UNCHANGED result
    /\ UNCHANGED <<config, now, wakeAt, waits, rotLog, apiKeysArg, configArg, construction,
                   thrown, settled, classified, handled, returned, chat, handling>>

\* A service built with the default configuration, nothing called yet.
InitValidation == InitTelemetry

NextValidation ==
    \/ \E c \in Callers, argument \in Contents : Detect(c, argument)
    \/ \E c \in Callers, text \in RawTexts : CallSucceeds(c, text)
    \/ \E c \in Callers, error \in UpstreamErrors : CallFails(c, error)
    \/ \E c \in Callers : WakeAfterRateLimit(c)
    \/ \E c \in Callers : WakeAfterBackoff(c)
    \/ AdvanceClock

ValidationSpec == InitValidation /\ [][NextValidation]_vars

\* Content the claim calls invalid: text that is empty or not a string,
\* image data that is missing.
InvalidContent(argument) ==
    IF argument.kind = "text"
    THEN argument.value.type # "string" \/ argument.value.chars = ""
    ELSE argument.value.type \in {"undefined", "null"} \/ argument.value = JSString("")

C33_InvalidStep ==
    \A c \in Callers :
        /\ (pc[c] = "idle" /\ content'[c] # content[c] /\ InvalidContent(content'[c])) =>
               /\ pc'[c] = "done"
               /\ result'[c].kind = "error"
               /\ result'[c].error \in {ErrInvalidText, ErrNoImage}
               /\ calls' = calls
               /\ issued' = issued
               /\ keyUsageStats' = keyUsageStats
               /\ rateLimitResetTimes' = rateLimitResetTimes
               /\ currentKeyIndex' = currentKeyIndex
               /\ clientKey' = clientKey
        /\ (pc[c] = "done" /\ calls[c] = 0) => (pc'[c] = "done" /\ calls'[c] = 0)

\* C33: a detect call whose text is empty or not a string, or whose image
\* data is missing, fails in the step it is made, with the validation error:
\* no upstream call is issued then or later, and the counters, lastUsed, the
\* reset times, currentKeyIndex and the client stay as they were.
C33_InvalidContentFailsFirst == [][C33_InvalidStep]_vars

\* One caller's call was rejected for a number as text while the other
\* caller's call was in flight.
C33_Witness ==
    \E c, d \in Callers :
        /\ pc[c] = "done"
        /\ calls[c] = 0
        /\ content[c] = TextContent(JSNumber(5))
        /\ result[c].error = ErrInvalidText
        /\ pc[d] = "call"
        /\ keyUsageStats[currentKeyIndex].requests = issued
        /\ issued = 1

\* ----------------------------------------------------- the detection handler

HandledTexts ==
    {<<Json(OnlyFlag)>>, <<Json(FullRecord)>>,
     <<Fence, Word("json"), LineBreak, Json(FullRecord), LineBreak, Fence>>,
     <<Json(RecordOf([hasPII |-> JSBoolean(FALSE), confidence |-> JSNumber(95)]))>>,
     <<Json(JSObject(<<>>))>>, <<Word("hello")>>, <<Word("Detected")>>}

HandledSettlements ==
    {[kind |-> "text", text |-> text, error |-> NoError] : text \in HandledTexts}
        \cup {[kind |-> "error", text |-> <<>>, error |-> error] : error \in UpstreamErrors}

\* The three config entries handleDetection reads, as the constructor can
\* leave them.
Handlings ==
    {[enableLogging |-> logging, databaseUrl |-> url, adminWebhook |-> hook, steps |-> <<>>] :
        logging \in BOOLEAN,
        url \in {JSNull, JSString("postgres://db")},
        hook \in {JSNull, JSString("https://hook")}}

InitHandling == Classifying(HandledSettlements, Handlings)

HandlingSpec == InitHandling /\ [][NextClassification]_vars

Took(step) == \E i \in DOMAIN handling.steps : handling.steps[i] = step

\* C34: once detectPIIInText has settled after a successful dispatch, it has
\* returned exactly what parseDetectionResult made of the response text,
\* whether or not the database save or the admin webhook failed, and
\* handleDetection was called, logging, saving and notifying as configured,
\* iff that result's hasPII is truthy.
C34_HandlerNeverChangesResult ==
    classified.kind # "none" =>
        /\ settled.kind = "error" => (classified.kind = "error" /\ ~handled)
        /\ settled.kind = "text" =>
               LET detection == parseDetectionResult(settled.text).value
               IN  /\ classified.kind = "detection"
                   /\ classified.detection = detection
                   /\ handled <=> truthy(detection.hasPII)
        /\ ~handled => handling.steps = <<>>
        /\ handled =>
               /\ Took("log") <=> handling.enableLogging
               /\ Took("save") <=> truthy(handling.databaseUrl)
               /\ Took("fetch") <=> truthy(handling.adminWebhook)

\* The save rejected and the webhook failed, and the detection was returned.
C34_Witness ==
    /\ handled
    /\ Took("databaseSaveError")
    /\ Took("webhookError")
    /\ classified.kind = "detection"
    /\ classified.detection.riskLevel = JSString("high")

====
